---- MODULE Spec2Model ----
(***************************************************************************)
(* A model of thekogans::crypto::KeyRing (src/src/KeyRing.cpp): the maps   *)
(* of a ring, its master cipher key, its derived-object caches and its     *)
(* sub-rings, with one action per public mutator.  Const getters are       *)
(* operators over the current state.                                       *)
(***************************************************************************)
EXTENDS Integers, Sequences, FiniteSets, TLC

\* ------------------------------------------------------------------ bounds
NumIds == 2
NumVers == 2
MaxOps == 4
MaxTreeOps == 3
MaxAddOps == 3
MaxLookupOps == 3
MaxStoreOps == 4
MaxSaveOps == 3
MaxEnvelopeOps == 3
MaxLengthOps == 1
MaxDigestOps == 3
MaxSignerOps == 4
MaxKeyOps == 2
MaxAsymmetricOps == 4
MaxToolOps == 2
MaxDropOps == 3
MaxLocalOps == 3
MaxSizeOps == 3
MaxKeyLength == 3
DigestLength == 2
LengthSpan == 12

Ids == 1 .. NumIds
\* Distinct objects that carry the same ID differ in ver.
Vers == 1 .. NumVers
Rings == {"root", "A", "B"}

\* ----------------------------------------------------------------- objects
\* A null smart pointer (Ptr ()).
Null == [null |-> TRUE]
\* The result of a lookup that found no ring, and of one that never returns.
NoRing == "none"
Overflow == "overflow"

\* Key length, in bytes, of the suite's cipher (AES-256).
KeyLength == 32

SymmetricKeys == [id : Ids, ver : Vers, length : {KeyLength, KeyLength \div 2}]
AsymmetricKeys == [id : Ids, ver : Vers, type : {"EC", "HMAC"}]
ParamsSet == [id : Ids, ver : Vers, type : {"EC", "DH"}]

\* The suite of every ring: ECDHE_ECDSA_AES-256-GCM_SHA2-512.
cipherSuite ==
    [keyExchange |-> "ECDHE", authenticator |-> "ECDSA",
     cipher |-> "AES-256-GCM", messageDigest |-> "SHA2-512"]

VerifyKeyExchangeParams(params) == params.type = "EC"
VerifyKeyExchangeKey(key) == key.type = "EC"
VerifyAuthenticatorParams(params) == params.type = "EC"
VerifyAuthenticatorKey(key) == key.type = "EC"
VerifyCipherKey(key) == key.length = KeyLength
VerifyMACKey(key) == key.type = "HMAC"

\* Ring r's ID (Serializable::GetId): every ring object has its own.
RingId(r) == CASE r = "root" -> 1 [] r = "A" -> 2 [] r = "B" -> 3

\* --------------------------------------------------------------- std::map
EmptyMap == <<>>
Has(m, k) == k \in DOMAIN m
\* std::map::insert: the map afterwards; an existing entry is kept.
\* An insert that overwrites the entry the map holds, as m[k] = v does.
MapInsert_Overwrite(m, k, v) == [x \in DOMAIN m \cup {k} |-> IF x = k THEN v ELSE m[x]]

MapInsert(m, k, v) ==
    IF Has(m, k) THEN m ELSE [x \in DOMAIN m \cup {k} |-> IF x = k THEN v ELSE m[x]]
\* An insert that reports that the key was there already.
Inserted_Never(m, k) == FALSE

\* std::map::insert (...).second: the entry was inserted, the map held no
\* entry of that key.
Inserted(m, k) == ~Has(m, k)
\* std::map::erase.
MapErase(m, k) == [x \in DOMAIN m \ {k} |-> m[x]]
\* erase of every key of ks.
MapEraseAll(m, ks) == [x \in DOMAIN m \ ks |-> m[x]]

\* ------------------------------------------------------------------- state
VARIABLES
    masterCipherKey,        \* ring -> SymmetricKey
    keyExchangeParamsMap,   \* ring -> (ID -> Params)
    keyExchangeKeyMap,      \* ring -> (ID -> AsymmetricKey)
    keyExchangeMap,         \* ring -> (ID -> KeyExchange)
    authenticatorParamsMap, \* ring -> (ID -> Params)
    authenticatorKeyMap,    \* ring -> (ID -> AsymmetricKey)
    authenticatorMap,       \* ring -> (<<Op, ID>> -> Authenticator)
    activeCipherKeyMap,     \* ring -> (ID -> SymmetricKey)
    retiredCipherKeyMap,    \* ring -> (ID -> SymmetricKey)
    cipherMap,              \* ring -> (ID -> Cipher)
    macKeyMap,              \* ring -> (ID -> AsymmetricKey)
    macMap,                 \* ring -> (ID -> MAC)
    subringsMap,            \* ring -> sequence of sub-rings
    last,                   \* the last call and what it returned
    nops,                   \* calls made so far
    path,                   \* what the file at path holds
    save,                   \* the Save under way, or the last one
    stats,                  \* Cipher -> the Stats of its encryptor and decryptor
    ctx                     \* object -> its digest context

kxVars == <<keyExchangeParamsMap, keyExchangeKeyMap, keyExchangeMap>>
authVars == <<authenticatorParamsMap, authenticatorKeyMap, authenticatorMap>>
cipherVars == <<masterCipherKey, activeCipherKeyMap, retiredCipherKeyMap, cipherMap>>
macVars == <<macKeyMap, macMap>>
ringVars == <<kxVars, authVars, cipherVars, macVars, subringsMap>>
fileVars == <<path, save>>
\* The state of the objects used outside a ring.
objectVars == <<stats, ctx>>
vars == <<ringVars, last, nops, fileVars, objectVars>>

\* Everything ring r holds.
RingState(r) ==
    [masterCipherKey |-> masterCipherKey[r],
     keyExchangeParamsMap |-> keyExchangeParamsMap[r],
     keyExchangeKeyMap |-> keyExchangeKeyMap[r],
     keyExchangeMap |-> keyExchangeMap[r],
     authenticatorParamsMap |-> authenticatorParamsMap[r],
     authenticatorKeyMap |-> authenticatorKeyMap[r],
     authenticatorMap |-> authenticatorMap[r],
     activeCipherKeyMap |-> activeCipherKeyMap[r],
     retiredCipherKeyMap |-> retiredCipherKeyMap[r],
     cipherMap |-> cipherMap[r],
     macKeyMap |-> macKeyMap[r],
     macMap |-> macMap[r],
     subringsMap |-> subringsMap[r]]

\* The record of a call: op on ring r with ID id / object obj, flag rec;
\* ret is how it ended, res the object it returned (Null when none) or, for
\* a Drop* of one key or a SetMasterCipherKey that went through, the cache
\* entries it erased.
Call(op, r, id, obj, rec, ret, res) ==
    /\ last' = [op |-> op, ring |-> r, id |-> id, obj |-> obj, rec |-> rec,
                ret |-> ret, res |-> res]
    /\ nops' = nops + 1
    /\ UNCHANGED <<fileVars, objectVars>>

\* What a Drop* reports in res: the cache entries the call erased.
Purged(cache, after) == [purged |-> DOMAIN cache \ DOMAIN after]

\* A call can be made: the process has not died, in a runaway recursion or
\* of a write outside a buffer, and is not inside Save.
CanCall == nops < MaxOps /\ last.ret \notin {Overflow, "SIGSEGV"} /\ save.pc = "idle"

\* -------------------------------------------------------------- traversal
\* The ring at which a call op (id, recursive) on r acts: r when the local
\* lookup hits (r \in hits), else, when recursive, the first hit met going
\* through the sub-rings in the map's order, each searched the same way.
\* A path longer than the number of rings repeats a ring, and a recursion
\* that comes back to a ring without a hit never returns.
RECURSIVE Locate(_, _, _), LocateIn(_, _, _)
\* A lookup that asks the sub-rings of the ring it was called on and goes no
\* deeper.
Locate_OneLevel(r, hits, fuel) ==
    IF r \in hits THEN r
    ELSE IF fuel < Cardinality(Rings) THEN NoRing
    ELSE LocateIn(subringsMap[r], hits, fuel - 1)

Locate(r, hits, fuel) ==
    IF r \in hits THEN r
    ELSE IF fuel = 0 THEN Overflow
    ELSE LocateIn(subringsMap[r], hits, fuel - 1)
\* A lookup that goes through the sub-rings from the last one to the first.
LocateIn_Reverse(rings, hits, fuel) ==
    IF rings = <<>> THEN NoRing
    ELSE LET found == Locate(rings[Len(rings)], hits, fuel)
         IN  IF found # NoRing THEN found
             ELSE LocateIn(SubSeq(rings, 1, Len(rings) - 1), hits, fuel)

LocateIn(rings, hits, fuel) ==
    IF rings = <<>> THEN NoRing
    ELSE LET found == Locate(Head(rings), hits, fuel)
         IN  IF found # NoRing THEN found ELSE LocateIn(Tail(rings), hits, fuel)

\* A lookup that goes into the sub-rings whatever the flag says.
Target_AlwaysRecursive(r, hits, recursive) == Locate(r, hits, Cardinality(Rings))

Target(r, hits, recursive) ==
    IF recursive THEN Locate(r, hits, Cardinality(Rings))
    ELSE IF r \in hits THEN r ELSE NoRing

\* The rings a DropAll* (recursive) on r clears: r and, when recursive, every
\* ring below it.
RECURSIVE Below(_, _)
Below(r, fuel) ==
    IF fuel = 0 THEN {r}
    ELSE {r} \cup UNION {Below(subringsMap[r][i], fuel - 1) : i \in DOMAIN subringsMap[r]}
Cleared(r, recursive) == IF recursive THEN Below(r, Cardinality(Rings)) ELSE {r}
\* A recursion from r never returns: a ring below r reaches itself.
Cyclic(r) == Locate(r, {}, Cardinality(Rings)) = Overflow

\* ------------------------------------------------------------ const getters
\* A local lookup that tries the master key last.
LocalCipherKey_MasterLast(r, keyId) ==
    IF Has(activeCipherKeyMap[r], keyId) THEN activeCipherKeyMap[r][keyId]
    ELSE IF Has(retiredCipherKeyMap[r], keyId) THEN retiredCipherKeyMap[r][keyId]
    ELSE IF masterCipherKey[r].id = keyId THEN masterCipherKey[r]
    ELSE Null

\* A local lookup that stops after the active map.
LocalCipherKey_ActiveOnly(r, keyId) ==
    IF masterCipherKey[r].id = keyId THEN masterCipherKey[r]
    ELSE IF Has(activeCipherKeyMap[r], keyId) THEN activeCipherKeyMap[r][keyId]
    ELSE Null

\* The local part of GetCipherKey: master first, then active, then retired.
LocalCipherKey(r, keyId) ==
    IF masterCipherKey[r].id = keyId THEN masterCipherKey[r]
    ELSE IF Has(activeCipherKeyMap[r], keyId) THEN activeCipherKeyMap[r][keyId]
    ELSE IF Has(retiredCipherKeyMap[r], keyId) THEN retiredCipherKeyMap[r][keyId]
    ELSE Null

HoldsCipherKey(keyId) == {x \in Rings : LocalCipherKey(x, keyId) # Null}

GetCipherKey(r, keyId, recursive) ==
    LET t == Target(r, HoldsCipherKey(keyId), recursive)
    IN  IF t \in Rings THEN LocalCipherKey(t, keyId) ELSE Null

\* ---------------------------------------------------------- construction
\* SymmetricKey::FromRandom (keyLength): a key of that length under a fresh
\* random ID, which no caller-made object of the model carries.
FromRandom(r, keyLength) == [id |-> NumIds + RingId(r), ver |-> 1, length |-> keyLength]

\* A constructor that keeps the caller's pointer as it is, null included.
NewMasterCipherKey_AsGiven(r, masterCipherKey_) == masterCipherKey_

\* KeyRing::KeyRing (cipherSuite_, masterCipherKey_, name, description): the
\* master key of the new ring r.
NewMasterCipherKey(r, masterCipherKey_) ==
    IF masterCipherKey_ = Null THEN FromRandom(r, KeyLength) ELSE masterCipherKey_

\* The master keys a caller may hand to the constructor: none, or any key,
\* of the suite's length or not.
MasterArgs == {Null} \cup {k \in SymmetricKeys : k.ver = 1}

\* --------------------------------------------------------- byte counts
\* A byte count hi * Limb + lo: lengths run up to UI32_MAX and past it.
Limb == 65536
Num(hi, lo) == [hi |-> hi, lo |-> lo]
\* a + b and a - b, b a count below Limb; a < b and a <= b.
Plus(a, b) == Num(a.hi + (a.lo + b) \div Limb, (a.lo + b) % Limb)
Minus(a, b) == IF a.lo >= b THEN Num(a.hi, a.lo - b) ELSE Num(a.hi - 1, a.lo + Limb - b)
Sum(a, b) == Num(a.hi + b.hi + (a.lo + b.lo) \div Limb, (a.lo + b.lo) % Limb)
Less(a, b) == a.hi < b.hi \/ (a.hi = b.hi /\ a.lo < b.lo)
AtMost(a, b) == ~Less(b, a)
\* (util::ui32)a: what a 4 byte field holds of a.
UI32(a) == Num(a.hi % Limb, a.lo)
UI32_MAX == Num(Limb - 1, Limb - 1)

\* ----------------------------------------------------------------- Cipher
\* EVP_CIPH_GCM_MODE and EVP_CIPH_CBC_MODE; the digests of the CBC MAC.
Modes == {"GCM", "CBC"}
MDs == {"SHA2_256", "SHA2_512"}
\* The Cipher objects of the model: one key, GCM (which ignores the digest)
\* and CBC with either digest.
Ciphers ==
    {[key |-> "k", mode |-> "GCM", md |-> "SHA2_256"]} \cup
    {[key |-> "k", mode |-> "CBC", md |-> md] : md \in MDs}
\* Stats (): all four counters are 0.
NoStats ==
    [encryptor |-> [useCount |-> 0, minByteCount |-> Num(0, 0),
                    maxByteCount |-> Num(0, 0), totalByteCount |-> Num(0, 0)],
     decryptor |-> [useCount |-> 0, minByteCount |-> Num(0, 0),
                    maxByteCount |-> Num(0, 0), totalByteCount |-> Num(0, 0)]]

\* ---------------------------------------------------------------- digests
\* The objects that hold a digest context: a MessageDigest, the Signer of an
\* Authenticator (Sign), the Verifier of an Authenticator (Verify), a MAC,
\* and an Ed25519Signer.
Objects == {"MessageDigest", "Signer", "Verifier", "MAC", "Ed25519Signer"}
\* The context a constructor leaves (EVP_DigestInit_ex): nothing fed.  fed is
\* what the context has digested; chunks and init keep the buffers of the
\* Update calls since the last Init, and whether Init was called since the
\* last Final.
NewContext == [fed |-> <<>>, chunks |-> <<>>, init |-> FALSE]

\* No file at path.
NoFile == [exists |-> FALSE]
\* No Save was called yet.
NoSave == [pc |-> "idle", buffer |-> Null, previous |-> NoFile]

NoCall ==
    [op |-> "KeyRing", ring |-> "root", id |-> 0, obj |-> Null, rec |-> FALSE,
     ret |-> "ok", res |-> Null]

\* Three rings, each built by the constructor, the root with the master key
\* m (Null: none), then linked by AddSubring into the sub-ring lists subrings;
\* spent is the part of the budget of calls that is gone.
Built(m, subrings, spent) ==
    /\ masterCipherKey =
          [r \in Rings |-> NewMasterCipherKey(r, IF r = "root" THEN m ELSE Null)]
    /\ keyExchangeParamsMap = [r \in Rings |-> EmptyMap]
    /\ keyExchangeKeyMap = [r \in Rings |-> EmptyMap]
    /\ keyExchangeMap = [r \in Rings |-> EmptyMap]
    /\ authenticatorParamsMap = [r \in Rings |-> EmptyMap]
    /\ authenticatorKeyMap = [r \in Rings |-> EmptyMap]
    /\ authenticatorMap = [r \in Rings |-> EmptyMap]
    /\ activeCipherKeyMap = [r \in Rings |-> EmptyMap]
    /\ retiredCipherKeyMap = [r \in Rings |-> EmptyMap]
    /\ cipherMap = [r \in Rings |-> EmptyMap]
    /\ macKeyMap = [r \in Rings |-> EmptyMap]
    /\ macMap = [r \in Rings |-> EmptyMap]
    /\ subringsMap = subrings
    /\ last = NoCall
    /\ nops = spent
    /\ path = NoFile
    /\ save = NoSave
    /\ stats = [c \in Ciphers |-> NoStats]
    /\ ctx = [o \in Objects |-> NewContext]

\* The root with a master key of the caller's choice.
NoSubrings == [r \in Rings |-> <<>>]
Init == \E m \in MasterArgs : Built(m, NoSubrings, 0)
\* Every ring with the random master key the constructor makes.
InitRandom == Built(Null, NoSubrings, 0)
\* The same, with MaxAddOps calls to make.
InitAdd == Built(Null, NoSubrings, MaxOps - MaxAddOps)
\* The trees of the three rings under the root, with MaxTreeOps calls to make.
Trees ==
    {[NoSubrings EXCEPT !["root"] = <<"A", "B">>],
     [NoSubrings EXCEPT !["root"] = <<"B", "A">>],
     [NoSubrings EXCEPT !["root"] = <<"A">>, !["A"] = <<"B">>]}
InitTree == \E subrings \in Trees : Built(Null, subrings, MaxOps - MaxTreeOps)

\* ------------------------------------------------------------ cipher keys
\* cipherSuite.GetCipher (key): a new Cipher over key; made tells apart
\* Cipher objects built by different calls.
NewCipher(key) == [key |-> key, made |-> nops + 1]

\* A SetMasterCipherKey that leaves the cipher cache as it is.
SetMasterCipherMap_Kept(r) == cipherMap[r]

\* A SetMasterCipherKey that empties the cipher cache.
SetMasterCipherMap_Emptied(r) == EmptyMap

\* The cipher cache of r after SetMasterCipherKey: the old master's entry goes.
SetMasterCipherMap(r) == MapErase(cipherMap[r], masterCipherKey[r].id)

\* A SetMasterCipherKey that drops the old master's Cipher before it checks
\* the new key.
SetMasterCipherKey_EraseFirst(r, masterCipherKey_) ==
    /\ CanCall
    /\ cipherMap' = [cipherMap EXCEPT ![r] = SetMasterCipherMap(r)]
    /\ IF masterCipherKey_ # Null /\ VerifyCipherKey(masterCipherKey_)
       THEN /\ masterCipherKey' = [masterCipherKey EXCEPT ![r] = masterCipherKey_]
            /\ Call("SetMasterCipherKey", r, masterCipherKey_.id, masterCipherKey_,
                    FALSE, "ok", Purged(cipherMap[r], SetMasterCipherMap(r)))
       ELSE /\ UNCHANGED masterCipherKey
            /\ Call("SetMasterCipherKey", r, 0, masterCipherKey_, FALSE, "EINVAL", Null)
    /\ UNCHANGED <<kxVars, authVars, macVars, activeCipherKeyMap, retiredCipherKeyMap,
                   subringsMap>>

SetMasterCipherKey(r, masterCipherKey_) ==
    /\ CanCall
    /\ IF masterCipherKey_ # Null /\ VerifyCipherKey(masterCipherKey_)
       THEN /\ cipherMap' = [cipherMap EXCEPT ![r] = SetMasterCipherMap(r)]
            /\ masterCipherKey' = [masterCipherKey EXCEPT ![r] = masterCipherKey_]
            /\ Call("SetMasterCipherKey", r, masterCipherKey_.id, masterCipherKey_,
                    FALSE, "ok", Purged(cipherMap[r], SetMasterCipherMap(r)))
       ELSE /\ UNCHANGED <<cipherMap, masterCipherKey>>
            /\ Call("SetMasterCipherKey", r, 0, masterCipherKey_, FALSE, "EINVAL", Null)
    /\ UNCHANGED <<kxVars, authVars, macVars, activeCipherKeyMap, retiredCipherKeyMap,
                   subringsMap>>

\* Rings whose GetCipher (keyId) ends locally: a cached Cipher or a local key.
ServesCipher(keyId) ==
    {x \in Rings : Has(cipherMap[x], keyId) \/ LocalCipherKey(x, keyId) # Null}

GetCipher(r, keyId, recursive) ==
    /\ CanCall
    /\ LET t == Target(r, ServesCipher(keyId), recursive)
       IN  IF t \in Rings
           THEN IF Has(cipherMap[t], keyId)
                THEN /\ UNCHANGED cipherMap
                     /\ Call("GetCipher", r, keyId, Null, recursive, "found",
                             cipherMap[t][keyId])
                ELSE LET cipher == NewCipher(LocalCipherKey(t, keyId))
                         inserted == Inserted(cipherMap[t], keyId)
                     IN  /\ cipherMap' =
                               [cipherMap EXCEPT ![t] = MapInsert(@, keyId, cipher)]
                         /\ IF inserted
                            THEN Call("GetCipher", r, keyId, Null, recursive, "found",
                                      cipher)
                            ELSE Call("GetCipher", r, keyId, Null, recursive, "error",
                                      Null)
           ELSE /\ UNCHANGED cipherMap
                /\ Call("GetCipher", r, keyId, Null, recursive,
                        IF t = Overflow THEN Overflow ELSE "null", Null)
    /\ UNCHANGED <<kxVars, authVars, macVars, masterCipherKey, activeCipherKeyMap,
                   retiredCipherKeyMap, subringsMap>>

AddCipherActiveKey(r, key) ==
    /\ CanCall
    /\ IF key # Null /\ VerifyCipherKey(key)
       THEN /\ activeCipherKeyMap' =
                  [activeCipherKeyMap EXCEPT ![r] = MapInsert(@, key.id, key)]
            /\ Call("AddCipherActiveKey", r, key.id, key, FALSE,
                    IF Has(activeCipherKeyMap[r], key.id) THEN "false" ELSE "true", Null)
       ELSE /\ UNCHANGED activeCipherKeyMap
            /\ Call("AddCipherActiveKey", r, 0, key, FALSE, "EINVAL", Null)
    /\ UNCHANGED <<kxVars, authVars, macVars, masterCipherKey, retiredCipherKeyMap,
                   cipherMap, subringsMap>>

HoldsActive(keyId) == {x \in Rings : Has(activeCipherKeyMap[x], keyId)}
HoldsRetired(keyId) == {x \in Rings : Has(retiredCipherKeyMap[x], keyId)}

\* A retire that copies the key to the retired map and leaves it active.
RetiredFromActive_Kept(t, keyId) == activeCipherKeyMap[t]

\* The active map of t after a retire that went through.
RetiredFromActive(t, keyId) == MapErase(activeCipherKeyMap[t], keyId)

\* A retire that also erases the Cipher cached for the key.
RetireActiveCipherKey_Purging(r, keyId, recursive) ==
    /\ CanCall
    /\ LET t == Target(r, HoldsActive(keyId), recursive)
       IN  IF t \in Rings
           THEN IF ~Has(retiredCipherKeyMap[t], keyId)
                THEN /\ retiredCipherKeyMap' =
                           [retiredCipherKeyMap EXCEPT
                               ![t] = MapInsert(@, keyId, activeCipherKeyMap[t][keyId])]
                     /\ activeCipherKeyMap' =
                           [activeCipherKeyMap EXCEPT ![t] = RetiredFromActive(t, keyId)]
                     /\ cipherMap' = [cipherMap EXCEPT ![t] = MapErase(@, keyId)]
                     /\ Call("RetireActiveCipherKey", r, keyId, Null, recursive, "true",
                             Null)
                ELSE /\ UNCHANGED <<activeCipherKeyMap, retiredCipherKeyMap, cipherMap>>
                     /\ Call("RetireActiveCipherKey", r, keyId, Null, recursive, "error",
                             Null)
           ELSE /\ UNCHANGED <<activeCipherKeyMap, retiredCipherKeyMap, cipherMap>>
                /\ Call("RetireActiveCipherKey", r, keyId, Null, recursive,
                        IF t = Overflow THEN Overflow ELSE "false", Null)
    /\ UNCHANGED <<kxVars, authVars, macVars, masterCipherKey, subringsMap>>

RetireActiveCipherKey(r, keyId, recursive) ==
    /\ CanCall
    /\ LET t == Target(r, HoldsActive(keyId), recursive)
       IN  IF t \in Rings
           THEN IF ~Has(retiredCipherKeyMap[t], keyId)
                THEN /\ retiredCipherKeyMap' =
                           [retiredCipherKeyMap EXCEPT
                               ![t] = MapInsert(@, keyId, activeCipherKeyMap[t][keyId])]
                     /\ activeCipherKeyMap' =
                           [activeCipherKeyMap EXCEPT ![t] = RetiredFromActive(t, keyId)]
                     /\ Call("RetireActiveCipherKey", r, keyId, Null, recursive, "true",
                             Null)
                ELSE /\ UNCHANGED <<activeCipherKeyMap, retiredCipherKeyMap>>
                     /\ Call("RetireActiveCipherKey", r, keyId, Null, recursive, "error",
                             Null)
           ELSE /\ UNCHANGED <<activeCipherKeyMap, retiredCipherKeyMap>>
                /\ Call("RetireActiveCipherKey", r, keyId, Null, recursive,
                        IF t = Overflow THEN Overflow ELSE "false", Null)
    /\ UNCHANGED <<kxVars, authVars, macVars, masterCipherKey, cipherMap, subringsMap>>

\* A drop of a cipher key that leaves the cipher cache as it is.
DroppedCipher_Kept(t, keyId) == cipherMap[t]

\* The cipher cache of t after a single cipher key keyId was dropped from it.
DroppedCipher(t, keyId) == MapErase(cipherMap[t], keyId)

DropActiveCipherKey(r, keyId, recursive) ==
    /\ CanCall
    /\ LET t == Target(r, HoldsActive(keyId), recursive)
       IN  IF t \in Rings
           THEN /\ activeCipherKeyMap' =
                      [activeCipherKeyMap EXCEPT ![t] = MapErase(@, keyId)]
                /\ cipherMap' = [cipherMap EXCEPT ![t] = DroppedCipher(t, keyId)]
                /\ Call("DropActiveCipherKey", r, keyId, Null, recursive, "true",
                        Purged(cipherMap[t], DroppedCipher(t, keyId)))
           ELSE /\ UNCHANGED <<activeCipherKeyMap, cipherMap>>
                /\ Call("DropActiveCipherKey", r, keyId, Null, recursive,
                        IF t = Overflow THEN Overflow ELSE "false", Null)
    /\ UNCHANGED <<kxVars, authVars, macVars, masterCipherKey, retiredCipherKeyMap,
                   subringsMap>>

DropRetiredCipherKey(r, keyId, recursive) ==
    /\ CanCall
    /\ LET t == Target(r, HoldsRetired(keyId), recursive)
       IN  IF t \in Rings
           THEN /\ retiredCipherKeyMap' =
                      [retiredCipherKeyMap EXCEPT ![t] = MapErase(@, keyId)]
                /\ cipherMap' = [cipherMap EXCEPT ![t] = DroppedCipher(t, keyId)]
                /\ Call("DropRetiredCipherKey", r, keyId, Null, recursive, "true",
                        Purged(cipherMap[t], DroppedCipher(t, keyId)))
           ELSE /\ UNCHANGED <<retiredCipherKeyMap, cipherMap>>
                /\ Call("DropRetiredCipherKey", r, keyId, Null, recursive,
                        IF t = Overflow THEN Overflow ELSE "false", Null)
    /\ UNCHANGED <<kxVars, authVars, macVars, masterCipherKey, activeCipherKeyMap,
                   subringsMap>>

\* The cipher cache of x after every key of keyMap was dropped from x.
DroppedCiphers(x, keyMap) ==
    MapEraseAll(cipherMap[x], {keyMap[x][k].id : k \in DOMAIN keyMap[x]})

DropActiveCipherKeys(r, recursive) ==
    /\ CanCall
    /\ IF recursive /\ Cyclic(r)
       THEN /\ UNCHANGED <<activeCipherKeyMap, cipherMap>>
            /\ Call("DropActiveCipherKeys", r, 0, Null, recursive, Overflow, Null)
       ELSE /\ cipherMap' =
                  [x \in Rings |->
                      IF x \in Cleared(r, recursive)
                      THEN DroppedCiphers(x, activeCipherKeyMap) ELSE cipherMap[x]]
            /\ activeCipherKeyMap' =
                  [x \in Rings |->
                      IF x \in Cleared(r, recursive)
                      THEN EmptyMap ELSE activeCipherKeyMap[x]]
            /\ Call("DropActiveCipherKeys", r, 0, Null, recursive, "ok", Null)
    /\ UNCHANGED <<kxVars, authVars, macVars, masterCipherKey, retiredCipherKeyMap,
                   subringsMap>>

DropRetiredCipherKeys(r, recursive) ==
    /\ CanCall
    /\ IF recursive /\ Cyclic(r)
       THEN /\ UNCHANGED <<retiredCipherKeyMap, cipherMap>>
            /\ Call("DropRetiredCipherKeys", r, 0, Null, recursive, Overflow, Null)
       ELSE /\ cipherMap' =
                  [x \in Rings |->
                      IF x \in Cleared(r, recursive)
                      THEN DroppedCiphers(x, retiredCipherKeyMap) ELSE cipherMap[x]]
            /\ retiredCipherKeyMap' =
                  [x \in Rings |->
                      IF x \in Cleared(r, recursive)
                      THEN EmptyMap ELSE retiredCipherKeyMap[x]]
            /\ Call("DropRetiredCipherKeys", r, 0, Null, recursive, "ok", Null)
    /\ UNCHANGED <<kxVars, authVars, macVars, masterCipherKey, activeCipherKeyMap,
                   subringsMap>>

\* f with the map of every ring of rs emptied.
\* A clear that reaches every ring.
ClearedIn_Everywhere(f, rs) == [x \in Rings |-> EmptyMap]

ClearedIn(f, rs) == [x \in Rings |-> IF x \in rs THEN EmptyMap ELSE f[x]]

DropAllCipherKeys(r, recursive) ==
    /\ CanCall
    /\ IF recursive /\ Cyclic(r)
       THEN /\ UNCHANGED <<activeCipherKeyMap, retiredCipherKeyMap, cipherMap>>
            /\ Call("DropAllCipherKeys", r, 0, Null, recursive, Overflow, Null)
       ELSE /\ activeCipherKeyMap' = ClearedIn(activeCipherKeyMap, Cleared(r, recursive))
            /\ retiredCipherKeyMap' = ClearedIn(retiredCipherKeyMap, Cleared(r, recursive))
            /\ cipherMap' = ClearedIn(cipherMap, Cleared(r, recursive))
            /\ Call("DropAllCipherKeys", r, 0, Null, recursive, "ok", Null)
    /\ UNCHANGED <<kxVars, authVars, macVars, masterCipherKey, subringsMap>>

\* ------------------------------------------------- const getters of the maps
GetFrom(map, r, id, recursive) ==
    LET t == Target(r, {x \in Rings : Has(map[x], id)}, recursive)
    IN  IF t \in Rings THEN map[t][id] ELSE Null
GetKeyExchangeParams(r, paramsId, recursive) ==
    GetFrom(keyExchangeParamsMap, r, paramsId, recursive)
GetKeyExchangeKey(r, keyId, recursive) == GetFrom(keyExchangeKeyMap, r, keyId, recursive)
GetAuthenticatorParams(r, paramsId, recursive) ==
    GetFrom(authenticatorParamsMap, r, paramsId, recursive)
GetAuthenticatorKey(r, keyId, recursive) == GetFrom(authenticatorKeyMap, r, keyId, recursive)
GetMACKey(r, keyId, recursive) == GetFrom(macKeyMap, r, keyId, recursive)

\* ------------------------------------------------------------ key exchange

AddKeyExchangeParams(r, params) ==
    /\ CanCall
    /\ IF params # Null /\ VerifyKeyExchangeParams(params)
       THEN /\ keyExchangeParamsMap' = [keyExchangeParamsMap EXCEPT ![r] = MapInsert(@, params.id, params)]
            /\ Call("AddKeyExchangeParams", r, params.id, params, FALSE,
                    IF Has(keyExchangeParamsMap[r], params.id) THEN "false" ELSE "true", Null)
       ELSE /\ UNCHANGED keyExchangeParamsMap
            /\ Call("AddKeyExchangeParams", r, 0, params, FALSE, "EINVAL", Null)
    /\ UNCHANGED <<keyExchangeKeyMap, keyExchangeMap, authVars, cipherVars, macVars, subringsMap>>

HoldsKeyExchangeParams(paramsId) == {x \in Rings : Has(keyExchangeParamsMap[x], paramsId)}

DropKeyExchangeParams(r, paramsId, recursive) ==
    /\ CanCall
    /\ LET t == Target(r, HoldsKeyExchangeParams(paramsId), recursive)
       IN  IF t \in Rings
           THEN /\ keyExchangeParamsMap' = [keyExchangeParamsMap EXCEPT ![t] = MapErase(@, paramsId)]
                /\ Call("DropKeyExchangeParams", r, paramsId, Null, recursive, "true", Null)
           ELSE /\ UNCHANGED keyExchangeParamsMap
                /\ Call("DropKeyExchangeParams", r, paramsId, Null, recursive,
                        IF t = Overflow THEN Overflow ELSE "false", Null)
    /\ UNCHANGED <<keyExchangeKeyMap, keyExchangeMap, authVars, cipherVars, macVars, subringsMap>>

DropAllKeyExchangeParams(r, recursive) ==
    /\ CanCall
    /\ IF recursive /\ Cyclic(r)
       THEN /\ UNCHANGED keyExchangeParamsMap
            /\ Call("DropAllKeyExchangeParams", r, 0, Null, recursive, Overflow, Null)
       ELSE /\ keyExchangeParamsMap' = ClearedIn(keyExchangeParamsMap, Cleared(r, recursive))
            /\ Call("DropAllKeyExchangeParams", r, 0, Null, recursive, "ok", Null)
    /\ UNCHANGED <<keyExchangeKeyMap, keyExchangeMap, authVars, cipherVars, macVars, subringsMap>>

\* cipherSuite.GetKeyExchange (key): a new KeyExchange over key.
NewKeyExchange(key) == [key |-> key, made |-> nops + 1]

\* Rings whose GetKeyExchange (keyId) ends locally: a cached KeyExchange or a local key.
ServesKeyExchange(keyId) == {x \in Rings : Has(keyExchangeMap[x], keyId) \/ Has(keyExchangeKeyMap[x], keyId)}

GetKeyExchange(r, keyId, recursive) ==
    /\ CanCall
    /\ LET t == Target(r, ServesKeyExchange(keyId), recursive)
       IN  IF t \in Rings
           THEN IF Has(keyExchangeMap[t], keyId)
                THEN /\ UNCHANGED keyExchangeMap
                     /\ Call("GetKeyExchange", r, keyId, Null, recursive, "found",
                             keyExchangeMap[t][keyId])
                ELSE LET made == NewKeyExchange(keyExchangeKeyMap[t][keyId])
                         inserted == Inserted(keyExchangeMap[t], keyId)
                     IN  /\ keyExchangeMap' = [keyExchangeMap EXCEPT ![t] = MapInsert(@, keyId, made)]
                         /\ IF inserted
                            THEN Call("GetKeyExchange", r, keyId, Null, recursive, "found", made)
                            ELSE Call("GetKeyExchange", r, keyId, Null, recursive, "error", Null)
           ELSE /\ UNCHANGED keyExchangeMap
                /\ Call("GetKeyExchange", r, keyId, Null, recursive,
                        IF t = Overflow THEN Overflow ELSE "null", Null)
    /\ UNCHANGED <<keyExchangeParamsMap, keyExchangeKeyMap, authVars, cipherVars, macVars, subringsMap>>

AddKeyExchangeKey(r, key) ==
    /\ CanCall
    /\ IF key # Null /\ VerifyKeyExchangeKey(key)
       THEN /\ keyExchangeKeyMap' = [keyExchangeKeyMap EXCEPT ![r] = MapInsert(@, key.id, key)]
            /\ Call("AddKeyExchangeKey", r, key.id, key, FALSE,
                    IF Has(keyExchangeKeyMap[r], key.id) THEN "false" ELSE "true", Null)
       ELSE /\ UNCHANGED keyExchangeKeyMap
            /\ Call("AddKeyExchangeKey", r, 0, key, FALSE, "EINVAL", Null)
    /\ UNCHANGED <<keyExchangeParamsMap, keyExchangeMap, authVars, cipherVars, macVars, subringsMap>>

\* The KeyExchange cache of t after key keyId was dropped from it.
DroppedKeyExchange(t, keyId) == MapErase(keyExchangeMap[t], keyId)

HoldsKeyExchangeKey(keyId) == {x \in Rings : Has(keyExchangeKeyMap[x], keyId)}

DropKeyExchangeKey(r, keyId, recursive) ==
    /\ CanCall
    /\ LET t == Target(r, HoldsKeyExchangeKey(keyId), recursive)
       IN  IF t \in Rings
           THEN /\ keyExchangeKeyMap' = [keyExchangeKeyMap EXCEPT ![t] = MapErase(@, keyId)]
                /\ keyExchangeMap' = [keyExchangeMap EXCEPT ![t] = DroppedKeyExchange(t, keyId)]
                /\ Call("DropKeyExchangeKey", r, keyId, Null, recursive, "true",
                        Purged(keyExchangeMap[t], DroppedKeyExchange(t, keyId)))
           ELSE /\ UNCHANGED <<keyExchangeKeyMap, keyExchangeMap>>
                /\ Call("DropKeyExchangeKey", r, keyId, Null, recursive,
                        IF t = Overflow THEN Overflow ELSE "false", Null)
    /\ UNCHANGED <<keyExchangeParamsMap, authVars, cipherVars, macVars, subringsMap>>

DropAllKeyExchangeKeys(r, recursive) ==
    /\ CanCall
    /\ IF recursive /\ Cyclic(r)
       THEN /\ UNCHANGED <<keyExchangeKeyMap, keyExchangeMap>>
            /\ Call("DropAllKeyExchangeKeys", r, 0, Null, recursive, Overflow, Null)
       ELSE /\ keyExchangeKeyMap' = ClearedIn(keyExchangeKeyMap, Cleared(r, recursive))
            /\ keyExchangeMap' = ClearedIn(keyExchangeMap, Cleared(r, recursive))
            /\ Call("DropAllKeyExchangeKeys", r, 0, Null, recursive, "ok", Null)
    /\ UNCHANGED <<keyExchangeParamsMap, authVars, cipherVars, macVars, subringsMap>>

\* ----------------------------------------------------------- authenticator

AddAuthenticatorParams(r, params) ==
    /\ CanCall
    /\ IF params # Null /\ VerifyAuthenticatorParams(params)
       THEN /\ authenticatorParamsMap' = [authenticatorParamsMap EXCEPT ![r] = MapInsert(@, params.id, params)]
            /\ Call("AddAuthenticatorParams", r, params.id, params, FALSE,
                    IF Has(authenticatorParamsMap[r], params.id) THEN "false" ELSE "true", Null)
       ELSE /\ UNCHANGED authenticatorParamsMap
            /\ Call("AddAuthenticatorParams", r, 0, params, FALSE, "EINVAL", Null)
    /\ UNCHANGED <<kxVars, authenticatorKeyMap, authenticatorMap, cipherVars, macVars, subringsMap>>

HoldsAuthenticatorParams(paramsId) == {x \in Rings : Has(authenticatorParamsMap[x], paramsId)}

DropAuthenticatorParams(r, paramsId, recursive) ==
    /\ CanCall
    /\ LET t == Target(r, HoldsAuthenticatorParams(paramsId), recursive)
       IN  IF t \in Rings
           THEN /\ authenticatorParamsMap' = [authenticatorParamsMap EXCEPT ![t] = MapErase(@, paramsId)]
                /\ Call("DropAuthenticatorParams", r, paramsId, Null, recursive, "true", Null)
           ELSE /\ UNCHANGED authenticatorParamsMap
                /\ Call("DropAuthenticatorParams", r, paramsId, Null, recursive,
                        IF t = Overflow THEN Overflow ELSE "false", Null)
    /\ UNCHANGED <<kxVars, authenticatorKeyMap, authenticatorMap, cipherVars, macVars, subringsMap>>

DropAllAuthenticatorParams(r, recursive) ==
    /\ CanCall
    /\ IF recursive /\ Cyclic(r)
       THEN /\ UNCHANGED authenticatorParamsMap
            /\ Call("DropAllAuthenticatorParams", r, 0, Null, recursive, Overflow, Null)
       ELSE /\ authenticatorParamsMap' = ClearedIn(authenticatorParamsMap, Cleared(r, recursive))
            /\ Call("DropAllAuthenticatorParams", r, 0, Null, recursive, "ok", Null)
    /\ UNCHANGED <<kxVars, authenticatorKeyMap, authenticatorMap, cipherVars, macVars, subringsMap>>

AuthenticatorOps == {"Sign", "Verify"}
AuthenticatorMapKey(op, keyId) == <<op, keyId>>
\* cipherSuite.GetAuthenticator (op, key): a new Authenticator for op over key.
NewAuthenticator(op, key) == [op |-> op, key |-> key, made |-> nops + 1]

\* Rings whose GetAuthenticator (op, keyId) ends locally.
ServesAuthenticator(op, keyId) ==
    {x \in Rings : \/ Has(authenticatorMap[x], AuthenticatorMapKey(op, keyId))
                   \/ Has(authenticatorKeyMap[x], keyId)}

GetAuthenticator(r, op, keyId, recursive) ==
    /\ CanCall
    /\ LET t == Target(r, ServesAuthenticator(op, keyId), recursive)
           mapKey == AuthenticatorMapKey(op, keyId)
       IN  IF t \in Rings
           THEN IF Has(authenticatorMap[t], mapKey)
                THEN /\ UNCHANGED authenticatorMap
                     /\ Call("GetAuthenticator", r, keyId, [op |-> op], recursive, "found",
                             authenticatorMap[t][mapKey])
                ELSE LET made == NewAuthenticator(op, authenticatorKeyMap[t][keyId])
                         inserted == Inserted(authenticatorMap[t], mapKey)
                     IN  /\ authenticatorMap' =
                               [authenticatorMap EXCEPT ![t] = MapInsert(@, mapKey, made)]
                         /\ IF inserted
                            THEN Call("GetAuthenticator", r, keyId, [op |-> op], recursive,
                                      "found", made)
                            ELSE Call("GetAuthenticator", r, keyId, [op |-> op], recursive,
                                      "error", Null)
           ELSE /\ UNCHANGED authenticatorMap
                /\ Call("GetAuthenticator", r, keyId, [op |-> op], recursive,
                        IF t = Overflow THEN Overflow ELSE "null", Null)
    /\ UNCHANGED <<kxVars, authenticatorParamsMap, authenticatorKeyMap, cipherVars, macVars,
                   subringsMap>>

AddAuthenticatorKey(r, key) ==
    /\ CanCall
    /\ IF key # Null /\ VerifyAuthenticatorKey(key)
       THEN /\ authenticatorKeyMap' = [authenticatorKeyMap EXCEPT ![r] = MapInsert(@, key.id, key)]
            /\ Call("AddAuthenticatorKey", r, key.id, key, FALSE,
                    IF Has(authenticatorKeyMap[r], key.id) THEN "false" ELSE "true", Null)
       ELSE /\ UNCHANGED authenticatorKeyMap
            /\ Call("AddAuthenticatorKey", r, 0, key, FALSE, "EINVAL", Null)
    /\ UNCHANGED <<kxVars, authenticatorParamsMap, authenticatorMap, cipherVars, macVars, subringsMap>>

\* The Authenticator cache of t after key keyId was dropped from it: the
\* Sign and the Verify entries go.
\* A drop of an authenticator key that erases the Sign entry alone.
DroppedAuthenticator_SignOnly(t, keyId) ==
    MapErase(authenticatorMap[t], AuthenticatorMapKey("Sign", keyId))

DroppedAuthenticator(t, keyId) ==
    MapErase(MapErase(authenticatorMap[t], AuthenticatorMapKey("Sign", keyId)),
             AuthenticatorMapKey("Verify", keyId))

HoldsAuthenticatorKey(keyId) == {x \in Rings : Has(authenticatorKeyMap[x], keyId)}

DropAuthenticatorKey(r, keyId, recursive) ==
    /\ CanCall
    /\ LET t == Target(r, HoldsAuthenticatorKey(keyId), recursive)
       IN  IF t \in Rings
           THEN /\ authenticatorKeyMap' = [authenticatorKeyMap EXCEPT ![t] = MapErase(@, keyId)]
                /\ authenticatorMap' = [authenticatorMap EXCEPT ![t] = DroppedAuthenticator(t, keyId)]
                /\ Call("DropAuthenticatorKey", r, keyId, Null, recursive, "true",
                        Purged(authenticatorMap[t], DroppedAuthenticator(t, keyId)))
           ELSE /\ UNCHANGED <<authenticatorKeyMap, authenticatorMap>>
                /\ Call("DropAuthenticatorKey", r, keyId, Null, recursive,
                        IF t = Overflow THEN Overflow ELSE "false", Null)
    /\ UNCHANGED <<kxVars, authenticatorParamsMap, cipherVars, macVars, subringsMap>>

DropAllAuthenticatorKeys(r, recursive) ==
    /\ CanCall
    /\ IF recursive /\ Cyclic(r)
       THEN /\ UNCHANGED <<authenticatorKeyMap, authenticatorMap>>
            /\ Call("DropAllAuthenticatorKeys", r, 0, Null, recursive, Overflow, Null)
       ELSE /\ authenticatorKeyMap' = ClearedIn(authenticatorKeyMap, Cleared(r, recursive))
            /\ authenticatorMap' = ClearedIn(authenticatorMap, Cleared(r, recursive))
            /\ Call("DropAllAuthenticatorKeys", r, 0, Null, recursive, "ok", Null)
    /\ UNCHANGED <<kxVars, authenticatorParamsMap, cipherVars, macVars, subringsMap>>

\* --------------------------------------------------------------------- MAC

\* cipherSuite.GetMAC (key): a new MAC over key.
NewMAC(key) == [key |-> key, made |-> nops + 1]

\* Rings whose GetMAC (keyId) ends locally: a cached MAC or a local key.
ServesMAC(keyId) == {x \in Rings : Has(macMap[x], keyId) \/ Has(macKeyMap[x], keyId)}

\* A GetMAC that keeps the MAC it made in the cache of the ring it was called
\* on, whichever ring holds the key.
GetMAC_CachesInCaller(r, keyId, recursive) ==
    /\ CanCall
    /\ LET t == Target(r, ServesMAC(keyId), recursive)
       IN  IF t \in Rings
           THEN IF Has(macMap[t], keyId)
                THEN /\ UNCHANGED macMap
                     /\ Call("GetMAC", r, keyId, Null, recursive, "found",
                             macMap[t][keyId])
                ELSE LET made == NewMAC(macKeyMap[t][keyId])
                     IN  /\ macMap' = [macMap EXCEPT ![r] = MapInsert(@, keyId, made)]
                         /\ Call("GetMAC", r, keyId, Null, recursive, "found", made)
           ELSE /\ UNCHANGED macMap
                /\ Call("GetMAC", r, keyId, Null, recursive,
                        IF t = Overflow THEN Overflow ELSE "null", Null)
    /\ UNCHANGED <<kxVars, authVars, cipherVars, macKeyMap, subringsMap>>

GetMAC(r, keyId, recursive) ==
    /\ CanCall
    /\ LET t == Target(r, ServesMAC(keyId), recursive)
       IN  IF t \in Rings
           THEN IF Has(macMap[t], keyId)
                THEN /\ UNCHANGED macMap
                     /\ Call("GetMAC", r, keyId, Null, recursive, "found",
                             macMap[t][keyId])
                ELSE LET made == NewMAC(macKeyMap[t][keyId])
                         inserted == Inserted(macMap[t], keyId)
                     IN  /\ macMap' = [macMap EXCEPT ![t] = MapInsert(@, keyId, made)]
                         /\ IF inserted
                            THEN Call("GetMAC", r, keyId, Null, recursive, "found", made)
                            ELSE Call("GetMAC", r, keyId, Null, recursive, "error", Null)
           ELSE /\ UNCHANGED macMap
                /\ Call("GetMAC", r, keyId, Null, recursive,
                        IF t = Overflow THEN Overflow ELSE "null", Null)
    /\ UNCHANGED <<kxVars, authVars, cipherVars, macKeyMap, subringsMap>>

AddMACKey(r, key) ==
    /\ CanCall
    /\ IF key # Null /\ VerifyMACKey(key)
       THEN /\ macKeyMap' = [macKeyMap EXCEPT ![r] = MapInsert(@, key.id, key)]
            /\ Call("AddMACKey", r, key.id, key, FALSE,
                    IF Has(macKeyMap[r], key.id) THEN "false" ELSE "true", Null)
       ELSE /\ UNCHANGED macKeyMap
            /\ Call("AddMACKey", r, 0, key, FALSE, "EINVAL", Null)
    /\ UNCHANGED <<kxVars, authVars, cipherVars, macMap, subringsMap>>

\* The MAC cache of t after key keyId was dropped from it.
DroppedMAC(t, keyId) == MapErase(macMap[t], keyId)

HoldsMACKey(keyId) == {x \in Rings : Has(macKeyMap[x], keyId)}

DropMACKey(r, keyId, recursive) ==
    /\ CanCall
    /\ LET t == Target(r, HoldsMACKey(keyId), recursive)
       IN  IF t \in Rings
           THEN /\ macKeyMap' = [macKeyMap EXCEPT ![t] = MapErase(@, keyId)]
                /\ macMap' = [macMap EXCEPT ![t] = DroppedMAC(t, keyId)]
                /\ Call("DropMACKey", r, keyId, Null, recursive, "true",
                        Purged(macMap[t], DroppedMAC(t, keyId)))
           ELSE /\ UNCHANGED <<macKeyMap, macMap>>
                /\ Call("DropMACKey", r, keyId, Null, recursive,
                        IF t = Overflow THEN Overflow ELSE "false", Null)
    /\ UNCHANGED <<kxVars, authVars, cipherVars, subringsMap>>

DropAllMACKeys(r, recursive) ==
    /\ CanCall
    /\ IF recursive /\ Cyclic(r)
       THEN /\ UNCHANGED <<macKeyMap, macMap>>
            /\ Call("DropAllMACKeys", r, 0, Null, recursive, Overflow, Null)
       ELSE /\ macKeyMap' = ClearedIn(macKeyMap, Cleared(r, recursive))
            /\ macMap' = ClearedIn(macMap, Cleared(r, recursive))
            /\ Call("DropAllMACKeys", r, 0, Null, recursive, "ok", Null)
    /\ UNCHANGED <<kxVars, authVars, cipherVars, subringsMap>>

\* --------------------------------------------------------------- sub-rings
\* subringsMap.find (subringId): the place of the sub-ring with that ID, 0 when none.
FindSubring(rings, subringId) ==
    IF \E i \in DOMAIN rings : RingId(rings[i]) = subringId
    THEN CHOOSE i \in DOMAIN rings : RingId(rings[i]) = subringId
    ELSE 0

\* subringsMap.insert: a ring whose ID the map holds is not inserted.
InsertSubring(rings, subring) ==
    IF FindSubring(rings, RingId(subring)) # 0 THEN rings ELSE Append(rings, subring)

\* subringsMap.erase.
EraseSubring(rings, subringId) ==
    SelectSeq(rings, LAMBDA x : RingId(x) # subringId)

AddSubring(r, subring) ==
    /\ CanCall
    /\ IF subring # NoRing
       THEN /\ subringsMap' = [subringsMap EXCEPT ![r] = InsertSubring(@, subring)]
            /\ Call("AddSubring", r, RingId(subring), [ring |-> subring], FALSE,
                    IF FindSubring(subringsMap[r], RingId(subring)) # 0
                    THEN "false" ELSE "true", Null)
       ELSE /\ UNCHANGED subringsMap
            /\ Call("AddSubring", r, 0, Null, FALSE, "EINVAL", Null)
    /\ UNCHANGED <<kxVars, authVars, cipherVars, macVars>>

HoldsSubring(subringId) ==
    {x \in Rings : FindSubring(subringsMap[x], subringId) # 0}

GetSubring(r, subringId, recursive) ==
    LET t == Target(r, HoldsSubring(subringId), recursive)
    IN  IF t \in Rings
        THEN subringsMap[t][FindSubring(subringsMap[t], subringId)]
        ELSE NoRing

DropSubring(r, subringId, recursive) ==
    /\ CanCall
    /\ LET t == Target(r, HoldsSubring(subringId), recursive)
       IN  IF t \in Rings
           THEN /\ subringsMap' = [subringsMap EXCEPT ![t] = EraseSubring(@, subringId)]
                /\ Call("DropSubring", r, subringId, Null, recursive, "true", Null)
           ELSE /\ UNCHANGED subringsMap
                /\ Call("DropSubring", r, subringId, Null, recursive,
                        IF t = Overflow THEN Overflow ELSE "false", Null)
    /\ UNCHANGED <<kxVars, authVars, cipherVars, macVars>>

DropAllSubrings(r) ==
    /\ CanCall
    /\ subringsMap' = [subringsMap EXCEPT ![r] = <<>>]
    /\ Call("DropAllSubrings", r, 0, Null, FALSE, "ok", Null)
    /\ UNCHANGED <<kxVars, authVars, cipherVars, macVars>>

Clear(r) ==
    /\ CanCall
    /\ keyExchangeParamsMap' = ClearedIn(keyExchangeParamsMap, {r})
    /\ keyExchangeKeyMap' = ClearedIn(keyExchangeKeyMap, {r})
    /\ keyExchangeMap' = ClearedIn(keyExchangeMap, {r})
    /\ authenticatorParamsMap' = ClearedIn(authenticatorParamsMap, {r})
    /\ authenticatorKeyMap' = ClearedIn(authenticatorKeyMap, {r})
    /\ authenticatorMap' = ClearedIn(authenticatorMap, {r})
    /\ activeCipherKeyMap' = ClearedIn(activeCipherKeyMap, {r})
    /\ retiredCipherKeyMap' = ClearedIn(retiredCipherKeyMap, {r})
    /\ cipherMap' = ClearedIn(cipherMap, {r})
    /\ macKeyMap' = ClearedIn(macKeyMap, {r})
    /\ macMap' = ClearedIn(macMap, {r})
    /\ subringsMap' = [subringsMap EXCEPT ![r] = <<>>]
    /\ Call("Clear", r, 0, Null, FALSE, "ok", Null)
    /\ UNCHANGED masterCipherKey

\* ----------------------------------------------------------- serialization
\* The entries of map m in the order in which its iterator meets them.
RECURSIVE MapOrder(_)
MapOrder(ids) ==
    IF ids = {} THEN <<>>
    ELSE LET first == CHOOSE i \in ids : \A j \in ids : i <= j
         IN  <<first>> \o MapOrder(ids \ {first})
Listed(m) == LET order == MapOrder(DOMAIN m) IN [i \in DOMAIN order |-> m[order[i]]]

\* What Serialize walks from ring r down: the ring's ID and suite, the objects
\* of each map as its loop meets them, the master key, and the same for each
\* sub-ring.  Derived objects are not part of it.  r is not cyclic.
RECURSIVE Image(_)
Image(r) ==
    [id |-> RingId(r),
     cipherSuite |-> cipherSuite,
     keyExchangeParams |-> Listed(keyExchangeParamsMap[r]),
     keyExchangeKeys |-> Listed(keyExchangeKeyMap[r]),
     authenticatorParams |-> Listed(authenticatorParamsMap[r]),
     authenticatorKeys |-> Listed(authenticatorKeyMap[r]),
     masterCipherKey |-> masterCipherKey[r],
     activeCipherKeys |-> Listed(activeCipherKeyMap[r]),
     retiredCipherKeys |-> Listed(retiredCipherKeyMap[r]),
     macKeys |-> Listed(macKeyMap[r]),
     subrings |-> [i \in DOMAIN subringsMap[r] |-> Image(subringsMap[r][i])]]

\* Serializable::Serialize (serializer, false): the header without the type.
\* Of the header the model keeps the ID.
WriteHeader(id) == <<id>>
\* SymmetricKey::Serialize: header, length of the key, the key's bytes (ver
\* stands for them).
WriteSymmetricKey(key) == WriteHeader(key.id) \o <<key.length, key.ver>>
\* AsymmetricKey: header, type, the key in PEM (ver stands for it).
WriteAsymmetricKey(key) == WriteHeader(key.id) \o <<key.type, key.ver>>
\* Params: header, type, the parameters (ver stands for them).
WriteParams(params) == WriteHeader(params.id) \o <<params.type, params.ver>>

RECURSIVE WriteSymmetricKeys(_), WriteAsymmetricKeys(_), WriteParamsList(_)
WriteSymmetricKeys(keys) ==
    IF keys = <<>> THEN <<>>
    ELSE WriteSymmetricKey(Head(keys)) \o WriteSymmetricKeys(Tail(keys))
WriteAsymmetricKeys(keys) ==
    IF keys = <<>> THEN <<>>
    ELSE WriteAsymmetricKey(Head(keys)) \o WriteAsymmetricKeys(Tail(keys))
WriteParamsList(list) ==
    IF list = <<>> THEN <<>>
    ELSE WriteParams(Head(list)) \o WriteParamsList(Tail(list))

\* KeyRing::Serialize (serializer, false) over an image: the bytes, as a
\* sequence of fields, in the order the code writes them.
RECURSIVE WriteRing(_), WriteRings(_)
WriteRing(image) ==
    WriteHeader(image.id)
    \o <<image.cipherSuite>>
    \o <<Len(image.keyExchangeParams)>> \o WriteParamsList(image.keyExchangeParams)
    \o <<Len(image.keyExchangeKeys)>> \o WriteAsymmetricKeys(image.keyExchangeKeys)
    \o <<Len(image.authenticatorParams)>> \o WriteParamsList(image.authenticatorParams)
    \o <<Len(image.authenticatorKeys)>> \o WriteAsymmetricKeys(image.authenticatorKeys)
    \o WriteSymmetricKey(image.masterCipherKey)
    \o <<Len(image.activeCipherKeys)>> \o WriteSymmetricKeys(image.activeCipherKeys)
    \o <<Len(image.retiredCipherKeys)>> \o WriteSymmetricKeys(image.retiredCipherKeys)
    \o <<Len(image.macKeys)>> \o WriteAsymmetricKeys(image.macKeys)
    \o <<Len(image.subrings)>> \o WriteRings(image.subrings)
WriteRings(images) ==
    IF images = <<>> THEN <<>>
    ELSE WriteRing(Head(images)) \o WriteRings(Tail(images))

\* Serialize on ring r, which is not cyclic.
Serialize(r) == WriteRing(Image(r))

\* The reading side.  A reader takes the bytes s and the place p it reads
\* from, and gives what it read and the place after it; next = 0 says that
\* it threw.
ReadHeader(s, p) == [id |-> s[p], next |-> p + 1]
\* A reader that leaves the key's bytes zeroed.
ReadSymmetricKey_Wiped(s, p) ==
    LET header == ReadHeader(s, p)
    IN  [obj |-> [id |-> header.id, ver |-> 0, length |-> s[header.next]],
         next |-> header.next + 2]

\* SymmetricKey (serializer).
ReadSymmetricKey(s, p) ==
    LET header == ReadHeader(s, p)
    IN  [obj |-> [id |-> header.id, ver |-> s[header.next + 1],
                  length |-> s[header.next]],
         next |-> header.next + 2]
\* AsymmetricKey (serializer).
ReadAsymmetricKey(s, p) ==
    LET header == ReadHeader(s, p)
    IN  [obj |-> [id |-> header.id, ver |-> s[header.next + 1],
                  type |-> s[header.next]],
         next |-> header.next + 2]
\* Params (serializer).
ReadParams(s, p) ==
    LET header == ReadHeader(s, p)
    IN  [obj |-> [id |-> header.id, ver |-> s[header.next + 1],
                  type |-> s[header.next]],
         next |-> header.next + 2]
ReadObject(kind, s, p) ==
    CASE kind = "SymmetricKey" -> ReadSymmetricKey(s, p)
      [] kind = "AsymmetricKey" -> ReadAsymmetricKey(s, p)
      [] kind = "Params" -> ReadParams(s, p)

\* An insert that reports success also when the map holds the ID.
InsertResult_AlwaysSecond(m, obj) == [map |-> MapInsert(m, obj.id, obj), second |-> TRUE]

\* map.insert (value_type (obj->GetId (), obj)): the map afterwards and
\* result.second.
InsertResult(m, obj) == [map |-> MapInsert(m, obj.id, obj), second |-> ~Has(m, obj.id)]

\* while (count-- > 0) {read an object; insert it; throw if not inserted}.
RECURSIVE ReadMap(_, _, _, _, _)
ReadMap(kind, s, p, count, m) ==
    IF count = 0 THEN [map |-> m, next |-> p]
    ELSE LET read == ReadObject(kind, s, p)
             result == InsertResult(m, read.obj)
         IN  IF ~result.second THEN [map |-> m, next |-> 0]
             ELSE ReadMap(kind, s, read.next, count - 1, result.map)

\* The fields the deserializing constructor reads after the header and the
\* suite, in its order, with the type of what each holds.
ReadOrder ==
    <<[field |-> "keyExchangeParamsMap", kind |-> "Params"],
      [field |-> "keyExchangeKeyMap", kind |-> "AsymmetricKey"],
      [field |-> "authenticatorParamsMap", kind |-> "Params"],
      [field |-> "authenticatorKeyMap", kind |-> "AsymmetricKey"],
      [field |-> "masterCipherKey", kind |-> "master"],
      [field |-> "activeCipherKeyMap", kind |-> "SymmetricKey"],
      [field |-> "retiredCipherKeyMap", kind |-> "SymmetricKey"],
      [field |-> "macKeyMap", kind |-> "AsymmetricKey"],
      [field |-> "subringsMap", kind |-> "KeyRing"]>>

\* A ring object as a value: what a ring built from bytes holds.  Its caches
\* are empty.
RingValue(id, suite) ==
    [id |-> id,
     cipherSuite |-> suite,
     keyExchangeParamsMap |-> EmptyMap,
     keyExchangeKeyMap |-> EmptyMap,
     authenticatorParamsMap |-> EmptyMap,
     authenticatorKeyMap |-> EmptyMap,
     masterCipherKey |-> Null,
     activeCipherKeyMap |-> EmptyMap,
     retiredCipherKeyMap |-> EmptyMap,
     macKeyMap |-> EmptyMap,
     subringsMap |-> <<>>]
NoRingValue == [ring |-> Null, next |-> 0]

\* KeyRing (serializer): the ring built from the bytes at p, or a throw.
RECURSIVE ReadRing(_, _), ReadFields(_, _, _, _), ReadSubrings(_, _, _, _)
ReadRing(s, p) ==
    LET header == ReadHeader(s, p)
    IN  ReadFields(s, header.next + 1, 1, RingValue(header.id, s[header.next]))
ReadFields(s, p, i, ring) ==
    IF i > Len(ReadOrder) THEN [ring |-> ring, next |-> p]
    ELSE IF ReadOrder[i].kind = "master"
    THEN LET read == ReadSymmetricKey(s, p)
         IN  ReadFields(s, read.next, i + 1, [ring EXCEPT !.masterCipherKey = read.obj])
    ELSE IF ReadOrder[i].kind = "KeyRing"
    THEN LET read == ReadSubrings(s, p + 1, s[p], <<>>)
         IN  IF read.next = 0 THEN NoRingValue
             ELSE ReadFields(s, read.next, i + 1, [ring EXCEPT !.subringsMap = read.rings])
    ELSE LET read == ReadMap(ReadOrder[i].kind, s, p + 1, s[p], EmptyMap)
         IN  IF read.next = 0 THEN NoRingValue
             ELSE ReadFields(s, read.next, i + 1,
                             [ring EXCEPT ![ReadOrder[i].field] = read.map])
ReadSubrings(s, p, count, rings) ==
    IF count = 0 THEN [rings |-> rings, next |-> p]
    ELSE LET read == ReadRing(s, p)
         IN  IF read.next = 0 THEN [rings |-> rings, next |-> 0]
             ELSE IF \E i \in DOMAIN rings : rings[i].id = read.ring.id
             THEN [rings |-> rings, next |-> 0]
             ELSE ReadSubrings(s, read.next, count - 1, Append(rings, read.ring))

\* Ring r, which is not cyclic, as a value: what it and the rings below it
\* hold apart from their caches.
RECURSIVE Persisted(_)
Persisted(r) ==
    [id |-> RingId(r),
     cipherSuite |-> cipherSuite,
     keyExchangeParamsMap |-> keyExchangeParamsMap[r],
     keyExchangeKeyMap |-> keyExchangeKeyMap[r],
     authenticatorParamsMap |-> authenticatorParamsMap[r],
     authenticatorKeyMap |-> authenticatorKeyMap[r],
     masterCipherKey |-> masterCipherKey[r],
     activeCipherKeyMap |-> activeCipherKeyMap[r],
     retiredCipherKeyMap |-> retiredCipherKeyMap[r],
     macKeyMap |-> macKeyMap[r],
     subringsMap |-> [i \in DOMAIN subringsMap[r] |-> Persisted(subringsMap[r][i])]]

\* ------------------------------------------------------------ Save and Load
\* Cipher *cipher = 0, and the ciphers callers wrap a ring file with.
NoCipher == "null"
WrapCiphers == {"C", "C2"}
AssociatedData == {"ad", "ad2"}
\* Cipher::Encrypt: an envelope that opens under the same key with the same
\* associated data.
Encrypt(cipher, associatedData, plaintext) ==
    [cipher |-> cipher, associatedData |-> associatedData, plaintext |-> plaintext]
\* Cipher::Decrypt: the plaintext when the envelope authenticates.
Decrypt(cipher, associatedData, file) ==
    [authentic |-> file.cipher = cipher /\ file.associatedData = associatedData,
     plaintext |-> file.plaintext]
\* A file that holds the bytes as they are.
Unwrapped(plaintext) ==
    [cipher |-> NoCipher, associatedData |-> NoCipher, plaintext |-> plaintext]

\* Save (path, cipher, associatedData) on ring r; res is what the file holds.
Save(r, cipher, associatedData) ==
    /\ CanCall
    /\ IF Cyclic(r)
       THEN Call("Save", r, 0, [cipher |-> cipher, associatedData |-> associatedData],
                 FALSE, Overflow, Null)
       ELSE LET buffer == Serialize(r)
            IN  Call("Save", r, 0, [cipher |-> cipher, associatedData |-> associatedData],
                     FALSE, "ok",
                     IF cipher # NoCipher
                     THEN Encrypt(cipher, associatedData, buffer)
                     ELSE Unwrapped(buffer))
    /\ UNCHANGED <<kxVars, authVars, cipherVars, macVars, subringsMap>>

\* Load (path, cipher, associatedData) of a file that holds file; r is the
\* ring the file was saved from.  res is the ring Load returns.
Load(r, file, cipher, associatedData) ==
    /\ CanCall
    /\ LET buffer == IF cipher # NoCipher
                     THEN Decrypt(cipher, associatedData, file)
                     ELSE [authentic |-> TRUE, plaintext |-> file.plaintext]
           args == [file |-> file, cipher |-> cipher, associatedData |-> associatedData]
       IN  IF ~buffer.authentic
           THEN Call("Load", r, 0, args, FALSE, "AuthFailed", Null)
           ELSE LET read == ReadRing(buffer.plaintext, 1)
                IN  IF read.next = 0
                    THEN Call("Load", r, 0, args, FALSE, "error", Null)
                    ELSE Call("Load", r, 0, args, FALSE, "ok", read.ring)
    /\ UNCHANGED <<kxVars, authVars, cipherVars, macVars, subringsMap>>

\* ------------------------------------------------------ Save, step by step
\* GetDataAvailableForReading of the buffer Save writes.
BufferLength(buffer) == Len(buffer.plaintext)
\* The file SimpleFile (path, ReadWrite | Create | Truncate) leaves: no bytes.
Truncated == [exists |-> TRUE, buffer |-> Null, length |-> 0]
\* A file that holds the first length bytes of buffer.
Written(buffer, length) ==
    IF length = 0 THEN Truncated
    ELSE [exists |-> TRUE, buffer |-> buffer, length |-> length]
\* A file that holds all of buffer.
Complete(buffer) == Written(buffer, BufferLength(buffer))

\* Save up to the open of the file: the ring is serialized, the buffer
\* encrypted when there is a cipher, and the file opened with Truncate.
SaveOpen(r, cipher, associatedData) ==
    /\ CanCall
    /\ nops' = nops + 1
    /\ IF Cyclic(r)
       THEN /\ last' = [op |-> "Save", ring |-> r, id |-> 0,
                        obj |-> [cipher |-> cipher, associatedData |-> associatedData],
                        rec |-> FALSE, ret |-> Overflow, res |-> Null]
            /\ UNCHANGED fileVars
       ELSE LET buffer == IF cipher # NoCipher
                          THEN Encrypt(cipher, associatedData, Serialize(r))
                          ELSE Unwrapped(Serialize(r))
            IN  /\ save' = [pc |-> "opened", buffer |-> buffer, previous |-> path]
                /\ path' = Truncated
                /\ UNCHANGED last
    /\ UNCHANGED <<ringVars, objectVars>>

\* file.Write of the whole buffer, and the return of Save.
SaveWrite ==
    /\ save.pc = "opened"
    /\ path' = Complete(save.buffer)
    /\ save' = [save EXCEPT !.pc = "idle"]
    /\ last' = [op |-> "Save", ring |-> "root", id |-> 0, obj |-> Null,
                rec |-> FALSE, ret |-> "ok", res |-> save.buffer]
    /\ UNCHANGED <<ringVars, nops, objectVars>>

\* The lengths a file.Write that fails, or is cut short, leaves in the file.
ShortWrites ==
    IF save.pc = "opened" THEN 0 .. BufferLength(save.buffer) - 1 ELSE {}

\* file.Write throws, or the process is stopped, after length bytes.
SaveWriteFails(length) ==
    /\ save.pc = "opened"
    /\ path' = Written(save.buffer, length)
    /\ save' = [save EXCEPT !.pc = "idle"]
    /\ last' = [op |-> "Save", ring |-> "root", id |-> 0, obj |-> Null,
                rec |-> FALSE, ret |-> "error", res |-> Null]
    /\ UNCHANGED <<ringVars, nops, objectVars>>

\* ------------------------------------------------------- Cipher envelopes
\* The sizes of the two headers and OpenSSL's maxima.
FrameHeader_SIZE == 36
CiphertextHeader_SIZE == 8
EVP_MAX_IV_LENGTH == 16
EVP_MAX_BLOCK_LENGTH == 32
EVP_MAX_MD_SIZE == 64
AES_BLOCK_SIZE == 16
GCM_TAG_SIZE == 16

\* A maximum that leaves no room for the frame header.
MAX_PLAINTEXT_LENGTH_Unframed ==
    Minus(UI32_MAX, CiphertextHeader_SIZE + EVP_MAX_IV_LENGTH +
                    EVP_MAX_BLOCK_LENGTH + EVP_MAX_MD_SIZE)

MAX_PLAINTEXT_LENGTH ==
    Minus(UI32_MAX, FrameHeader_SIZE + CiphertextHeader_SIZE + EVP_MAX_IV_LENGTH +
                    EVP_MAX_BLOCK_LENGTH + EVP_MAX_MD_SIZE)

IsAEAD(mode) == mode = "GCM"
\* EVP_CIPHER_CTX_iv_length: 12 bytes for GCM, 16 for CBC.
GetIVLength(mode) == IF mode = "GCM" THEN 12 ELSE 16
\* EVP_MD_size.
GetDigestLength(md) == IF md = "SHA2_256" THEN 32 ELSE 64
\* mac length: 0 for an AEAD cipher, the digest's length otherwise.
GetMacLength(cipher) == IF IsAEAD(cipher.mode) THEN 0 ELSE GetDigestLength(cipher.md)
\* ciphertext length: GCM appends its tag to the plaintext's length, CBC pads
\* to the next whole block.
GetCiphertextLength(mode, plaintextLength) ==
    IF IsAEAD(mode)
    THEN Plus(plaintextLength, GCM_TAG_SIZE)
    ELSE Plus(Minus(plaintextLength, plaintextLength.lo % AES_BLOCK_SIZE), AES_BLOCK_SIZE)
\* The bytes of an unframed envelope, and of a framed one.
GetEnvelopeLength(cipher, plaintextLength) ==
    Plus(GetCiphertextLength(cipher.mode, plaintextLength),
         CiphertextHeader_SIZE + GetIVLength(cipher.mode) + GetMacLength(cipher))
GetFrameLength(cipher, plaintextLength) ==
    Plus(GetEnvelopeLength(cipher, plaintextLength), FrameHeader_SIZE)
\* Cipher::GetMaxBufferLength: room for the largest framed envelope.
GetMaxBufferLength(plaintextLength) ==
    Plus(plaintextLength, FrameHeader_SIZE + CiphertextHeader_SIZE + EVP_MAX_IV_LENGTH +
                          EVP_MAX_BLOCK_LENGTH + EVP_MAX_MD_SIZE)

\* associatedData = 0.
NoData == "none"
\* An encryptor that does not feed the associated data to the cipher.
Encryptor_Encrypt_DataUnfed(cipher, plaintext, associatedData, iv) ==
    [key |-> cipher.key, mode |-> cipher.mode, iv |-> iv, plaintext |-> plaintext,
     tag |-> NoData]

\* Encryptor::Encrypt: the ciphertext of plaintext under the key and iv; in
\* GCM mode the tag over the associated data is appended.
Encryptor_Encrypt(cipher, plaintext, associatedData, iv) ==
    [key |-> cipher.key, mode |-> cipher.mode, iv |-> iv, plaintext |-> plaintext,
     tag |-> IF IsAEAD(cipher.mode) THEN associatedData ELSE NoData]
\* MAC::SignBuffer over iv || ciphertext with the cipher's key and digest.
MAC_SignBuffer(cipher, iv, ciphertext) ==
    [key |-> cipher.key, md |-> cipher.md, iv |-> iv, ciphertext |-> ciphertext]

\* What Encrypt rejects: a plaintext longer than MAX_PLAINTEXT_LENGTH, and
\* associated data in a mode that is not AEAD.
Rejected(cipher, plaintext, associatedData) ==
    \/ Less(MAX_PLAINTEXT_LENGTH, plaintext.length)
    \/ ~IsAEAD(cipher.mode) /\ associatedData # NoData

\* Cipher::Encrypt: header, iv, ciphertext and mac.
Cipher_Encrypt(cipher, plaintext, associatedData, iv) ==
    IF Rejected(cipher, plaintext, associatedData)
    THEN [ret |-> "EINVAL", res |-> Null]
    ELSE LET ciphertext == Encryptor_Encrypt(cipher, plaintext, associatedData, iv)
         IN  [ret |-> "ok",
              res |-> [ivLength |-> GetIVLength(cipher.mode),
                       ciphertextLength |->
                          UI32(GetCiphertextLength(cipher.mode, plaintext.length)),
                       macLength |-> GetMacLength(cipher),
                       iv |-> iv,
                       ciphertext |-> ciphertext,
                       mac |-> IF IsAEAD(cipher.mode) THEN Null
                               ELSE MAC_SignBuffer(cipher, iv, ciphertext)]]

\* Cipher::EncryptAndFrame: the key's ID and the envelope's length, then the
\* envelope.
Cipher_EncryptAndFrame(cipher, plaintext, associatedData, iv) ==
    LET envelope == Cipher_Encrypt(cipher, plaintext, associatedData, iv)
    IN  IF envelope.ret # "ok" THEN envelope
        ELSE [ret |-> "ok",
              res |-> [keyId |-> cipher.key,
                       ciphertextLength |->
                          UI32(GetEnvelopeLength(cipher, plaintext.length)),
                       envelope |-> envelope.res]]

\* Cipher::Decrypt: the header is parsed and checked against the cipher, the
\* MAC (CBC) or the tag (GCM) verified, and the plaintext returned.
Cipher_Decrypt(cipher, envelope, associatedData) ==
    IF \/ envelope.ivLength # GetIVLength(cipher.mode)
       \/ envelope.macLength # GetMacLength(cipher)
       \/ envelope.ciphertextLength #
             UI32(GetCiphertextLength(envelope.ciphertext.mode,
                                      envelope.ciphertext.plaintext.length))
    THEN [ret |-> "InvalidEnvelope", res |-> Null]
    ELSE IF /\ ~IsAEAD(cipher.mode)
            /\ envelope.mac # MAC_SignBuffer(cipher, envelope.iv, envelope.ciphertext)
    THEN [ret |-> "MacMismatch", res |-> Null]
    ELSE IF \/ envelope.ciphertext.key # cipher.key
            \/ envelope.ciphertext.iv # envelope.iv
            \/ IsAEAD(cipher.mode) /\ envelope.ciphertext.tag # associatedData
    THEN [ret |-> "AuthFailed", res |-> Null]
    ELSE [ret |-> "ok", res |-> envelope.ciphertext.plaintext]

\* A Stats::Update that takes the minimum against the constructor's 0.
Stats_Update_MinFromZero(st, byteCount) ==
    [useCount |-> st.useCount + 1,
     minByteCount |-> IF Less(byteCount, st.minByteCount) THEN byteCount
                      ELSE st.minByteCount,
     maxByteCount |-> IF Less(st.maxByteCount, byteCount) THEN byteCount
                      ELSE st.maxByteCount,
     totalByteCount |-> Sum(st.totalByteCount, byteCount)]

\* Stats::Update (byteCount).
Stats_Update(st, byteCount) ==
    [useCount |-> st.useCount + 1,
     minByteCount |-> IF st.useCount = 0 \/ Less(byteCount, st.minByteCount)
                      THEN byteCount ELSE st.minByteCount,
     maxByteCount |-> IF Less(st.maxByteCount, byteCount) THEN byteCount
                      ELSE st.maxByteCount,
     totalByteCount |-> Sum(st.totalByteCount, byteCount)]

\* The record of a call on an object that is no ring.
Did(op, obj, ret, res) ==
    /\ last' = [op |-> op, ring |-> NoRing, id |-> 0, obj |-> obj, rec |-> FALSE,
                ret |-> ret, res |-> res]
    /\ nops' = nops + 1
    /\ UNCHANGED <<ringVars, fileVars>>

\* cipher.Encrypt (plaintext, associatedData) with the random iv the
\* encryptor drew.
EncryptCall(cipher, plaintext, associatedData, iv) ==
    /\ CanCall
    /\ UNCHANGED ctx
    /\ LET e == Cipher_Encrypt(cipher, plaintext, associatedData, iv)
       IN  /\ Did("Encrypt",
                  [cipher |-> cipher, plaintext |-> plaintext,
                   associatedData |-> associatedData], e.ret, e.res)
           /\ stats' = IF e.ret = "ok"
                       THEN [stats EXCEPT ![cipher].encryptor =
                                             Stats_Update(@, plaintext.length)]
                       ELSE stats

\* cipher.EncryptAndFrame (plaintext, associatedData).
EncryptAndFrameCall(cipher, plaintext, associatedData, iv) ==
    /\ CanCall
    /\ UNCHANGED ctx
    /\ LET e == Cipher_EncryptAndFrame(cipher, plaintext, associatedData, iv)
       IN  /\ Did("EncryptAndFrame",
                  [cipher |-> cipher, plaintext |-> plaintext,
                   associatedData |-> associatedData], e.ret, e.res)
           /\ stats' = IF e.ret = "ok"
                       THEN [stats EXCEPT ![cipher].encryptor =
                                             Stats_Update(@, plaintext.length)]
                       ELSE stats

\* cipher.Decrypt (envelope, associatedData).
DecryptCall(cipher, envelope, associatedData) ==
    /\ CanCall
    /\ UNCHANGED ctx
    /\ LET d == Cipher_Decrypt(cipher, envelope, associatedData)
       IN  /\ Did("Decrypt",
                  [cipher |-> cipher, ciphertext |-> envelope,
                   associatedData |-> associatedData], d.ret, d.res)
           /\ stats' = IF d.ret = "ok"
                       THEN [stats EXCEPT ![cipher].decryptor =
                                             Stats_Update(@, envelope.ciphertextLength)]
                       ELSE stats

\* ------------------------------------- MessageDigest, Authenticator and MAC
\* What a context holds after Final, until it is initialised again.
Stale == <<-1>>
\* The digest of the bytes buffer under md.
Hash(md, buffer) == [md |-> md, of |-> buffer]

\* An Init that leaves in the context what it had digested.
MessageDigest_Init_Kept(c) == [c EXCEPT !.init = TRUE]

\* MessageDigest::Init, Update and Final on a context.
MessageDigest_Init(c) == [fed |-> <<>>, chunks |-> <<>>, init |-> TRUE]

\* An Update that starts the digest over with every buffer.
MessageDigest_Update_Replacing(c, buffer) ==
    [c EXCEPT !.fed = buffer, !.chunks = Append(@, buffer)]

MessageDigest_Update(c, buffer) ==
    [c EXCEPT !.fed = @ \o buffer, !.chunks = Append(@, buffer)]
MessageDigest_Final(c) == [c EXCEPT !.fed = Stale, !.init = FALSE]

\* The key and the digest an object was built with; an Authenticator that
\* signs and one that verifies hold the two halves of one key.
KeyOf(o) ==
    IF o \in {"Signer", "Verifier"} THEN "K" ELSE IF o = "MAC" THEN "M" ELSE "E"
DigestOf(o) == IF o = "Ed25519Signer" THEN "SHA2_512" ELSE "SHA2_256"
\* The signature (for a MAC, the code) of the digest of buffer under o's key.
Signed(o, buffer) == [key |-> KeyOf(o), digest |-> Hash(DigestOf(o), buffer)]
\* What Final returns: a MessageDigest the digest, the others a signature.
Finished(o, buffer) ==
    IF o = "MessageDigest" THEN Hash(DigestOf(o), buffer) ELSE Signed(o, buffer)

\* The files of the model: none at the path, an empty one, one of two bytes,
\* and one of two bytes whose second read fails.
Paths == {"missing", "empty", "file", "broken"}
FileAt(p) ==
    [exists |-> p # "missing",
     bytes |-> IF p \in {"file", "broken"} THEN <<1, 2>> ELSE <<>>,
     readable |-> IF p = "file" THEN 2 ELSE IF p = "broken" THEN 1 ELSE 0]

\* The start of a one-shot on a buffer: an empty buffer is refused before
\* the context is touched, else Init and Update.
FeedBuffer(c, buffer) ==
    IF buffer = <<>> THEN [ret |-> "EINVAL", ctx |-> c]
    ELSE [ret |-> "ok", ctx |-> MessageDigest_Update(MessageDigest_Init(c), buffer)]
\* The start of a one-shot on a file: the file is opened, then Init, then an
\* Update for every block read.
FeedFile(c, p) ==
    LET f == FileAt(p)
        read == SubSeq(f.bytes, 1, f.readable)
        fed == IF read = <<>> THEN MessageDigest_Init(c)
               ELSE MessageDigest_Update(MessageDigest_Init(c), read)
    IN  IF ~f.exists THEN [ret |-> "ENOENT", ctx |-> c]
        ELSE IF f.readable < Len(f.bytes) THEN [ret |-> "EIO", ctx |-> fed]
        ELSE [ret |-> "ok", ctx |-> fed]

\* A one-shot op of object o on input (a buffer or a path) that fed the
\* context as f tells; signature is the one to verify, Null when none.
OneShot(op, o, input, signature, f) ==
    /\ CanCall
    /\ ctx' = [ctx EXCEPT ![o] = IF f.ret = "ok" THEN MessageDigest_Final(f.ctx)
                                 ELSE f.ctx]
    /\ Did(op, [object |-> o, input |-> input, signature |-> signature,
                found |-> ctx[o]],
           f.ret,
           IF f.ret # "ok" THEN Null
           ELSE IF signature = Null THEN Finished(o, f.ctx.fed)
           ELSE [verified |-> signature = Signed(o, f.ctx.fed)])
    /\ UNCHANGED stats

HashBuffer(buffer) ==
    OneShot("HashBuffer", "MessageDigest", buffer, Null,
            FeedBuffer(ctx["MessageDigest"], buffer))
HashFile(p) ==
    OneShot("HashFile", "MessageDigest", p, Null, FeedFile(ctx["MessageDigest"], p))
\* Authenticator::SignBuffer and MAC::SignBuffer.
SignBuffer(o, buffer) ==
    OneShot("SignBuffer", o, buffer, Null, FeedBuffer(ctx[o], buffer))
SignFile(p) == OneShot("SignFile", "Signer", p, Null, FeedFile(ctx["Signer"], p))
\* Authenticator::VerifyBufferSignature and MAC::VerifyBufferSignature.
VerifyBufferSignature(o, buffer, signature) ==
    OneShot("VerifyBufferSignature", o, buffer, signature, FeedBuffer(ctx[o], buffer))
VerifyFileSignature(p, signature) ==
    OneShot("VerifyFileSignature", "Verifier", p, signature,
            FeedFile(ctx["Verifier"], p))

\* Init (), Update (buffer) and Final () of a MessageDigest and of an
\* Ed25519Signer, which hands the first two to its MessageDigest and signs
\* the digest in the third.
InitCall(o) ==
    /\ CanCall
    /\ ctx' = [ctx EXCEPT ![o] = MessageDigest_Init(@)]
    /\ Did("Init", [object |-> o], "ok", Null)
    /\ UNCHANGED stats
UpdateCall(o, buffer) ==
    /\ CanCall
    /\ ctx' = IF buffer = <<>> THEN ctx
              ELSE [ctx EXCEPT ![o] = MessageDigest_Update(@, buffer)]
    /\ Did("Update", [object |-> o, buffer |-> buffer],
           IF buffer = <<>> THEN "EINVAL" ELSE "ok", Null)
    /\ UNCHANGED stats
FinalCall(o) ==
    /\ CanCall
    /\ ctx' = [ctx EXCEPT ![o] = MessageDigest_Final(@)]
    /\ Did("Final", [object |-> o, chunks |-> ctx[o].chunks, init |-> ctx[o].init],
           "ok", Finished(o, ctx[o].fed))
    /\ UNCHANGED stats

\* ------------------------------------------------------ SymmetricKey bytes
\* A SymmetricKey as its bytes: a buffer of MaxKeyLength bytes (the model's
\* EVP_MAX_KEY_LENGTH) and the write offset, which is the key's length.
\* A byte is a record; Zero is the byte memset writes.
Byte(b) == [b |-> b]
Zero == Byte(0)
Zeros(n) == [i \in 1 .. n |-> Zero]
\* EVP_DigestFinal_ex: the DigestLength bytes of the digest of input under md
\* (the model's EVP_MD_size).
HashBytes(md, input) == [i \in 1 .. DigestLength |-> [md |-> md, of |-> input, i |-> i]]
\* The for loop of FromSecretAndSalt: the buffer digested again n times.
RECURSIVE Redigest(_, _, _)
Redigest(md, buffer, n) ==
    IF n = 0 THEN buffer ELSE Redigest(md, HashBytes(md, buffer), n - 1)

\* The while loop of FromSecretAndSalt: the bytes copied into the key, given
\* the buffer the previous round left (empty before the first).
RECURSIVE Derive(_, _, _, _, _, _)
Derive(keyLength, secret, salt, md, count, buffer) ==
    IF keyLength = 0 THEN <<>>
    ELSE LET block == Redigest(md, HashBytes(md, buffer \o secret \o salt), count - 1)
             n == IF keyLength < Len(block) THEN keyLength ELSE Len(block)
         IN  SubSeq(block, 1, n) \o Derive(keyLength - n, secret, salt, md, count, block)

\* The key that holds bytes: bytes, then zeros up to MaxKeyLength.
KeyOfBytes(bytes) ==
    [writeOffset |-> Len(bytes), data |-> bytes \o Zeros(MaxKeyLength - Len(bytes))]

\* What a write past the end of the key's buffer can end in: the process
\* dies, or it goes on with a key whose write offset is one of offsets.
Overrun(bytes, offsets) ==
    {[ret |-> "SIGSEGV", res |-> Null]} \cup
    {[ret |-> "ok", res |-> [writeOffset |-> offset,
                             data |-> SubSeq(bytes, 1, MaxKeyLength)]] :
        offset \in offsets}

\* SymmetricKey::FromSecretAndSalt: the outcomes of a call.  count is a
\* std::size_t and the loop that digests again counts in a util::ui32, which
\* never reaches a count above UI32_MAX.
FromSecretAndSalt(keyLength, secret, salt, md, count) ==
    IF ~(keyLength > 0 /\ secret # <<>> /\ Less(Num(0, 0), count))
    THEN {[ret |-> "EINVAL", res |-> Null]}
    ELSE IF Less(UI32_MAX, count) THEN {[ret |-> Overflow, res |-> Null]}
    ELSE LET bytes ==
                Derive(keyLength, secret, salt, md, count.hi * Limb + count.lo, <<>>)
         IN  IF keyLength > MaxKeyLength
             THEN Overrun(bytes, {MaxKeyLength, keyLength})
             ELSE {[ret |-> "ok", res |-> KeyOfBytes(bytes)]}

\* SymmetricKey::Serialize: the length, then that many bytes.
SerializeKey(key) == <<key.writeOffset>> \o SubSeq(key.data, 1, key.writeOffset)
\* SymmetricKey (serializer): the write offset is read, then that many bytes,
\* and the rest of the buffer is zeroed.
DeserializeKey(encoded) ==
    LET bytes == Tail(encoded)
    IN  IF Head(encoded) > MaxKeyLength THEN Overrun(bytes, {Head(encoded)})
        ELSE {[ret |-> "ok", res |-> KeyOfBytes(bytes)]}

\* SymmetricKey::FromSecretAndSalt (keyLength, secret, salt, md, count).
FromSecretAndSaltCall(keyLength, secret, salt, md, count) ==
    /\ CanCall
    /\ \E outcome \in FromSecretAndSalt(keyLength, secret, salt, md, count) :
          Did("FromSecretAndSalt",
              [keyLength |-> keyLength, secret |-> secret, salt |-> salt, md |-> md,
               count |-> count], outcome.ret, outcome.res)
    /\ UNCHANGED objectVars

\* SymmetricKey::FromRandom: random are the bytes the random source gave,
\* at least MIN_RANDOM_LENGTH of them, used as the secret.
FromRandomCall(keyLength, random, salt, md, count) ==
    /\ CanCall
    /\ \E outcome \in FromSecretAndSalt(keyLength, random, salt, md, count) :
          Did("FromRandom",
              [keyLength |-> keyLength, salt |-> salt, md |-> md, count |-> count],
              outcome.ret, outcome.res)
    /\ UNCHANGED objectVars

\* SymmetricKey (serializer) on the bytes encoded.
DeserializeCall(encoded) ==
    /\ CanCall
    /\ \E outcome \in DeserializeKey(encoded) :
          Did("SymmetricKey", [encoded |-> encoded], outcome.ret, outcome.res)
    /\ UNCHANGED objectVars

\* ----------------------------------------------- AsymmetricKey, byte by byte
\* Sizes, in bytes, of the serializer's fields: a bool, an i32, the length
\* before a string, an ID.
BOOL_SIZE == 1
I32_SIZE == 4
UI32_SIZE == 4
ID_SIZE == 32

\* A field of size bytes holding value, and the bytes of a text, one to a
\* field.
Field(size, value) == [size |-> size, value |-> value]
Chars(text) == [i \in 1 .. Len(text) |-> Field(1, text[i])]
\* The number of bytes in a stream of fields.
RECURSIVE BytesIn(_)
BytesIn(stream) ==
    IF Len(stream) = 0 THEN 0
    ELSE IF Len(stream) = 1 THEN stream[1].size
    ELSE LET half == Len(stream) \div 2
         IN  BytesIn(SubSeq(stream, 1, half)) + BytesIn(SubSeq(stream, half + 1, Len(stream)))

\* Serializable: the ID, the name and the description, each string behind its
\* length.
Serializable_Size(k) ==
    ID_SIZE + (UI32_SIZE + Len(k.name)) + (UI32_SIZE + Len(k.description))
WriteString(text) == <<Field(UI32_SIZE, Len(text))>> \o Chars(text)
Serializable_Write(k) ==
    <<Field(ID_SIZE, k.id)>> \o WriteString(k.name) \o WriteString(k.description)
\* The string at position p of the stream s, and the position after it.
ReadString(s, p) ==
    [value |-> [i \in 1 .. s[p].value |-> s[p + i].value],
     next |-> p + 1 + s[p].value]
Serializable_Read(s, p) ==
    LET name == ReadString(s, p + 1)
        description == ReadString(s, name.next)
    IN  [id |-> s[p].value, name |-> name.value, description |-> description.value,
         next |-> description.next]

\* An EVP_PKEY: its type, the key pair it belongs to, and whether it holds
\* the private half.  PEM_write_bio_PrivateKey gives the text of a key with
\* a private half and fails (no text) on any other; PEM_write_bio_PUBKEY
\* gives the text of the public half; both fail on no key.
PEM_write_bio_PrivateKey(key) ==
    IF key # Null /\ key.private
    THEN <<"PRIVATE KEY", key.type, key.pair, "private">> ELSE <<>>
PEM_write_bio_PUBKEY(key) ==
    IF key # Null THEN <<"PUBLIC KEY", key.type, key.pair>> ELSE <<>>
\* PEM_read_bio_PrivateKey and PEM_read_bio_PUBKEY: the key of a text of
\* their kind, 0 for any other text.
PEM_read_bio_PrivateKey(text) ==
    IF Len(text) = 4 /\ text[1] = "PRIVATE KEY"
    THEN [type |-> text[2], pair |-> text[3], private |-> TRUE] ELSE Null
PEM_read_bio_PUBKEY(text) ==
    IF Len(text) = 3 /\ text[1] = "PUBLIC KEY"
    THEN [type |-> text[2], pair |-> text[3], private |-> FALSE] ELSE Null

\* AsymmetricKey::AsymmetricKey (key_, isPrivate_, id, name, description).
AsymmetricKey_New(key, isPrivate, id, name, description) ==
    IF key = Null THEN [ret |-> "EINVAL", res |-> Null]
    ELSE IF key.type \notin {"DH", "DSA", "EC", "RSA", "HMAC", "CMAC"}
    THEN [ret |-> "Invalid parameters type", res |-> Null]
    ELSE [ret |-> "ok",
          res |-> [id |-> id, name |-> name, description |-> description,
                   isPrivate |-> isPrivate, key |-> key]]

\* AsymmetricKey::GetPublicKey (id, name, description) of the key k.
AsymmetricKey_GetPublicKey(k, id, name, description) ==
    LET text == PEM_write_bio_PUBKEY(k.key)
    IN  IF Len(text) = 0 THEN [ret |-> "OpenSSL", res |-> Null]
        ELSE AsymmetricKey_New(PEM_read_bio_PUBKEY(text), FALSE, id, name,
                               description)

\* WriteKey: the key's text, private or public as isPrivate says.
WriteKey(isPrivate, key) ==
    IF isPrivate THEN PEM_write_bio_PrivateKey(key) ELSE PEM_write_bio_PUBKEY(key)

\* A size that leaves out the key's length field.
AsymmetricKey_Size_NoKeyLength(k) ==
    Serializable_Size(k) + BOOL_SIZE + I32_SIZE + Len(WriteKey(k.isPrivate, k.key))

\* AsymmetricKey::Size: the size of the Serializable, of isPrivate, of the
\* type and of the key's length, and the length of the key's text.
AsymmetricKey_Size(k) ==
    Serializable_Size(k) + BOOL_SIZE + I32_SIZE + I32_SIZE
        + Len(WriteKey(k.isPrivate, k.key))

\* AsymmetricKey::Write.
AsymmetricKey_Write(k) ==
    LET keyBuffer == WriteKey(k.isPrivate, k.key)
    IN  Serializable_Write(k) \o
        <<Field(BOOL_SIZE, k.isPrivate), Field(I32_SIZE, k.key.type),
          Field(I32_SIZE, Len(keyBuffer))>> \o
        Chars(keyBuffer)

\* AsymmetricKey::Read of the stream s: the type read is dropped, the key is
\* what the text's reader returns.
AsymmetricKey_Read(s) ==
    LET base == Serializable_Read(s, 1)
        isPrivate == s[base.next].value
        keyLength == s[base.next + 2].value
        keyBuffer == [i \in 1 .. keyLength |-> s[base.next + 2 + i].value]
    IN  [id |-> base.id, name |-> base.name, description |-> base.description,
         isPrivate |-> isPrivate,
         key |-> IF isPrivate THEN PEM_read_bio_PrivateKey(keyBuffer)
                 ELSE PEM_read_bio_PUBKEY(keyBuffer)]

\* The last call left an AsymmetricKey.
HasKey ==
    /\ last.op \in {"AsymmetricKey::AsymmetricKey", "AsymmetricKey::GetPublicKey"}
    /\ last.ret = "ok"

\* A key from a factory: LoadPrivateKeyFromFile passes true with the private
\* key it read, LoadPublicKeyFromFile false with the public key, each 0
\* when the file holds no such key.
NewKeyCall(key, id, name, description) ==
    /\ CanCall
    /\ LET made == AsymmetricKey_New(key, key # Null /\ key.private, id, name,
                                     description)
       IN  Did("AsymmetricKey::AsymmetricKey", key, made.ret, made.res)
    /\ UNCHANGED objectVars

\* The last call read an AsymmetricKey from an encoding.
HasReadKey == last.op = "AsymmetricKey::Extract" /\ last.ret = "ok"

\* GetPublicKey (id, name, description) of the key the last call left, a
\* const method: the key after the call is the key before it.
GetPublicKeyCall(id, name, description) ==
    /\ CanCall
    /\ HasKey \/ HasReadKey
    /\ LET made == AsymmetricKey_GetPublicKey(last.res, id, name, description)
       IN  Did("AsymmetricKey::GetPublicKey",
               [key |-> last.res, after |-> last.res, id |-> id, name |-> name,
                description |-> description],
               made.ret, made.res)
    /\ UNCHANGED objectVars

\* The key the last call left, serialized into a buffer of Size () bytes:
\* a write past the buffer's end throws.
SerializeCall ==
    /\ CanCall
    /\ HasKey
    /\ LET size == AsymmetricKey_Size(last.res)
           buffer == AsymmetricKey_Write(last.res)
       IN  Did("AsymmetricKey::Serialize", [key |-> last.res, from |-> last.op],
               IF BytesIn(buffer) <= size THEN "ok" ELSE "buffer full",
               [size |-> size, buffer |-> buffer])
    /\ UNCHANGED objectVars

\* The encoding of a key with the fields of k: isPrivate, the type and the
\* text keyBuffer as the writer chose them.
Encoding(k, isPrivate, type, keyBuffer) ==
    Serializable_Write(k) \o
    <<Field(BOOL_SIZE, isPrivate), Field(I32_SIZE, type),
      Field(I32_SIZE, Len(keyBuffer))>> \o
    Chars(keyBuffer)
\* The type an encoding records.
RecordedType(s) == s[Serializable_Read(s, 1).next + 1].value

\* serializer >> key on an encoding that anyone wrote: a new AsymmetricKey,
\* its fields set by Read.
ExtractCall(encoded) ==
    /\ CanCall
    /\ Did("AsymmetricKey::Extract", [buffer |-> encoded], "ok",
           AsymmetricKey_Read(encoded))
    /\ UNCHANGED objectVars

\* A key read from the buffer the last call serialized one into.
ReadCall ==
    /\ CanCall
    /\ last.op = "AsymmetricKey::Serialize"
    /\ last.ret = "ok"
    /\ Did("AsymmetricKey::Read", last.obj, "ok", AsymmetricKey_Read(last.res.buffer))
    /\ UNCHANGED objectVars

\* ------------------------------------------------- genkeyring and signfile
\* The steps of genkeyring's main that can throw, in the order it takes
\* them, and those of signfile's.
GenkeyringSteps ==
    <<"KeyRing", "FromSecretAndSalt", "Save open", "Save write", "Load", "Encrypt",
      "Decrypt">>
SignfileSteps == <<"LoadPrivateKeyFromFile", "SignFile", "open", "Write">>
\* No step throws.
NoFailure == "none"
\* Nothing throws and the decrypted bytes are not the original ones.
Mismatch == "mismatch"

\* The place of step in steps, 0 when it is no step.
StepAt(steps, step) ==
    IF \E i \in 1 .. Len(steps) : steps[i] = step
    THEN CHOOSE i \in 1 .. Len(steps) : steps[i] = step ELSE 0
\* The run got past step: no step up to it threw.
Passed(steps, failure, step) ==
    StepAt(steps, failure) = 0 \/ StepAt(steps, failure) > StepAt(steps, step)

\* genkeyring's main: the usage and 1 without a password or a path (or with
\* -h); else the ring is made, saved, loaded and tried, any exception is
\* caught and logged, and main returns 0.
genkeyring_main(help, password, file, failure) ==
    IF help \/ password = "" \/ file = "" THEN [exit |-> 1, output |-> "usage"]
    ELSE [exit |-> 0,
          output |-> IF failure = NoFailure THEN "Passed"
                     ELSE IF failure = Mismatch THEN "Failed"
                     ELSE "logged"]

\* signfile's main: the usage and 1 without a private key or a path (or with
\* -h); else the file is signed and the signature written, any exception is
\* caught and logged, and main returns 0.
signfile_main(help, privateKey, file, failure) ==
    IF help \/ privateKey = "" \/ file = "" THEN [exit |-> 1, output |-> "usage"]
    ELSE [exit |-> 0, output |-> IF failure = NoFailure THEN "Done" ELSE "logged"]

\* A run of genkeyring in which failure is the step that throws when the run
\* gets there; the file at path is left as Save leaves it.
GenkeyringCall(help, password, file, failure) ==
    /\ CanCall
    /\ LET run == genkeyring_main(help, password, file, failure)
           buffer == Encrypt(password, NoData, <<"ring">>)
       IN  /\ last' = [op |-> "genkeyring", ring |-> NoRing, id |-> 0,
                       obj |-> [help |-> help, secret |-> password, file |-> file,
                                failure |-> failure],
                       rec |-> FALSE, ret |-> "exit", res |-> run]
           /\ path' = IF run.exit = 1 \/ ~Passed(GenkeyringSteps, failure, "Save open")
                      THEN path
                      ELSE IF failure = "Save write" THEN Truncated
                      ELSE Complete(buffer)
    /\ nops' = nops + 1
    /\ UNCHANGED <<ringVars, save, objectVars>>

\* A run of signfile; the signature goes to another file than the one at
\* path.
SignfileCall(help, privateKey, file, failure) ==
    /\ CanCall
    /\ Did("signfile",
           [help |-> help, secret |-> privateKey, file |-> file, failure |-> failure],
           "exit", signfile_main(help, privateKey, file, failure))
    /\ UNCHANGED objectVars

\* ------------------------------------------------- the ring, byte by byte
\* The sum of the numbers of a list, and the streams of a list one after the
\* other.
RECURSIVE Total(_), Joined(_)
Total(sizes) == IF sizes = <<>> THEN 0 ELSE Head(sizes) + Total(Tail(sizes))
Joined(streams) == IF streams = <<>> THEN <<>> ELSE Head(streams) \o Joined(Tail(streams))

\* The Serializable of an object of a ring: its ID, no name, no description.
Header(obj) == [id |-> obj.id, name |-> <<>>, description |-> <<>>]

\* cipherSuite.Size () and serializer << cipherSuite: the suite's text behind
\* its length.
CipherSuite_Text ==
    <<cipherSuite.keyExchange, "_", cipherSuite.authenticator, "_", cipherSuite.cipher,
      "_", cipherSuite.messageDigest>>
CipherSuite_Size == UI32_SIZE + Len(CipherSuite_Text)
CipherSuite_Write == WriteString(CipherSuite_Text)

\* SymmetricKey::Size (false) and SymmetricKey::Serialize (serializer, false):
\* the header, the length of the key, the key's bytes in one write.
SymmetricKey_Size(key) == Serializable_Size(Header(key)) + UI32_SIZE + key.length
SymmetricKey_Serialize(key) ==
    Serializable_Write(Header(key)) \o <<Field(UI32_SIZE, key.length)>>
        \o <<Field(key.length, key.ver)>>

\* An asymmetric key of a ring as the AsymmetricKey object it is: a private
\* key of its type.
RingKey(key) ==
    [id |-> key.id, name |-> <<>>, description |-> <<>>, isPrivate |-> TRUE,
     key |-> [type |-> key.type, pair |-> key.ver, private |-> TRUE]]

\* Params::Size (false) and Params::Serialize (serializer, false): the
\* header, the type, the length of the parameters' text, the text.
Params_Text(params) == <<"PARAMETERS", params.type, params.ver>>
Params_Size(params) ==
    Serializable_Size(Header(params)) + I32_SIZE + I32_SIZE + Len(Params_Text(params))
Params_Serialize(params) ==
    Serializable_Write(Header(params))
        \o <<Field(I32_SIZE, params.type), Field(I32_SIZE, Len(Params_Text(params)))>>
        \o Chars(Params_Text(params))

RECURSIVE KeyRing_Size(_), KeyRing_Serialize(_)
\* KeyRing::Size (false) over what the ring holds: the header, the suite and,
\* list by list, the size of the count and the Size (false) of every object;
\* the master key between the authenticator keys and the active keys; the
\* sub-rings last, each with its own Size (false).
KeyRing_Size(image) ==
    Serializable_Size(Header(image)) + CipherSuite_Size
    + UI32_SIZE + Total([i \in DOMAIN image.keyExchangeParams |->
                            Params_Size(image.keyExchangeParams[i])])
    + UI32_SIZE + Total([i \in DOMAIN image.keyExchangeKeys |->
                            AsymmetricKey_Size(RingKey(image.keyExchangeKeys[i]))])
    + UI32_SIZE + Total([i \in DOMAIN image.authenticatorParams |->
                            Params_Size(image.authenticatorParams[i])])
    + UI32_SIZE + Total([i \in DOMAIN image.authenticatorKeys |->
                            AsymmetricKey_Size(RingKey(image.authenticatorKeys[i]))])
    + SymmetricKey_Size(image.masterCipherKey)
    + UI32_SIZE + Total([i \in DOMAIN image.activeCipherKeys |->
                            SymmetricKey_Size(image.activeCipherKeys[i])])
    + UI32_SIZE + Total([i \in DOMAIN image.retiredCipherKeys |->
                            SymmetricKey_Size(image.retiredCipherKeys[i])])
    + UI32_SIZE + Total([i \in DOMAIN image.macKeys |->
                            AsymmetricKey_Size(RingKey(image.macKeys[i]))])
    + UI32_SIZE + Total([i \in DOMAIN image.subrings |->
                            KeyRing_Size(image.subrings[i])])

\* KeyRing::Serialize (serializer, false), byte by byte: what WriteRing
\* writes, every field with its size.
KeyRing_Serialize(image) ==
    Serializable_Write(Header(image)) \o CipherSuite_Write
    \o <<Field(UI32_SIZE, Len(image.keyExchangeParams))>>
    \o Joined([i \in DOMAIN image.keyExchangeParams |->
                  Params_Serialize(image.keyExchangeParams[i])])
    \o <<Field(UI32_SIZE, Len(image.keyExchangeKeys))>>
    \o Joined([i \in DOMAIN image.keyExchangeKeys |->
                  AsymmetricKey_Write(RingKey(image.keyExchangeKeys[i]))])
    \o <<Field(UI32_SIZE, Len(image.authenticatorParams))>>
    \o Joined([i \in DOMAIN image.authenticatorParams |->
                  Params_Serialize(image.authenticatorParams[i])])
    \o <<Field(UI32_SIZE, Len(image.authenticatorKeys))>>
    \o Joined([i \in DOMAIN image.authenticatorKeys |->
                  AsymmetricKey_Write(RingKey(image.authenticatorKeys[i]))])
    \o SymmetricKey_Serialize(image.masterCipherKey)
    \o <<Field(UI32_SIZE, Len(image.activeCipherKeys))>>
    \o Joined([i \in DOMAIN image.activeCipherKeys |->
                  SymmetricKey_Serialize(image.activeCipherKeys[i])])
    \o <<Field(UI32_SIZE, Len(image.retiredCipherKeys))>>
    \o Joined([i \in DOMAIN image.retiredCipherKeys |->
                  SymmetricKey_Serialize(image.retiredCipherKeys[i])])
    \o <<Field(UI32_SIZE, Len(image.macKeys))>>
    \o Joined([i \in DOMAIN image.macKeys |->
                  AsymmetricKey_Write(RingKey(image.macKeys[i]))])
    \o <<Field(UI32_SIZE, Len(image.subrings))>>
    \o Joined([i \in DOMAIN image.subrings |-> KeyRing_Serialize(image.subrings[i])])

\* The first lines of Save on ring r: a buffer of Size (false) bytes is
\* allocated and Serialize (*buffer, false) writes into it.  res holds the
\* length of the buffer and the bytes written.  On a ring that reaches itself
\* Size never returns.
SaveBuffer(r) ==
    /\ CanCall
    /\ IF Cyclic(r)
       THEN Call("SaveBuffer", r, 0, Null, FALSE, Overflow, Null)
       ELSE Call("SaveBuffer", r, 0, Null, FALSE, "ok",
                 [length |-> KeyRing_Size(Image(r)),
                  buffer |-> KeyRing_Serialize(Image(r))])
    /\ UNCHANGED ringVars

\* ----------------------------------------------------------- specifications
\* What callers pass: every valid object, an invalid object, null.
CipherKeyArgs ==
    {k \in SymmetricKeys : k.length = KeyLength \/ (k.ver = 1 /\ k.id = 1)} \cup {Null}
AsymmetricKeyArgs(type) ==
    {k \in AsymmetricKeys : k.type = type \/ (k.ver = 1 /\ k.id = 1)} \cup {Null}
ParamsArgs == {p \in ParamsSet : p.type = "EC" \/ (p.ver = 1 /\ p.id = 1)} \cup {Null}
\* The IDs a caller asks ring r about: the objects' IDs and its master key's.
CallIds(r) == Ids \cup {masterCipherKey[r].id}

\* The cipher-key calls on one ring without sub-rings.
CipherCalls(r) ==
    \/ \E key \in CipherKeyArgs : SetMasterCipherKey(r, key)
    \/ \E key \in CipherKeyArgs : AddCipherActiveKey(r, key)
    \/ \E keyId \in CallIds(r) : GetCipher(r, keyId, FALSE)
    \/ \E keyId \in Ids : RetireActiveCipherKey(r, keyId, FALSE)
    \/ \E keyId \in Ids : DropActiveCipherKey(r, keyId, FALSE)
    \/ \E keyId \in Ids : DropRetiredCipherKey(r, keyId, FALSE)
    \/ DropActiveCipherKeys(r, FALSE)
    \/ DropRetiredCipherKeys(r, FALSE)
    \/ DropAllCipherKeys(r, FALSE)
    \/ Clear(r)

NextCipher == CipherCalls("root")
SpecCipher == Init /\ [][NextCipher]_vars

\* The objects of one ID that callers pass to Add*: every valid object of
\* that ID, an invalid one, null.
AddId == 1
AddCipherKeyArgs == {k \in CipherKeyArgs : k = Null \/ k.id = AddId}
AddAsymmetricKeyArgs(type) == {k \in AsymmetricKeyArgs(type) : k = Null \/ k.id = AddId}
AddParamsArgs == {p \in ParamsArgs : p = Null \/ p.id = AddId}

\* Every Add* and SetMasterCipherKey on one ring, with the getters that fill
\* the derived caches.
AddCalls(r) ==
    \/ \E params \in AddParamsArgs : AddKeyExchangeParams(r, params)
    \/ \E key \in AddAsymmetricKeyArgs("EC") : AddKeyExchangeKey(r, key)
    \/ \E params \in AddParamsArgs : AddAuthenticatorParams(r, params)
    \/ \E key \in AddAsymmetricKeyArgs("EC") : AddAuthenticatorKey(r, key)
    \/ \E key \in AddCipherKeyArgs : AddCipherActiveKey(r, key)
    \/ \E key \in AddAsymmetricKeyArgs("HMAC") : AddMACKey(r, key)
    \/ \E subring \in Rings \cup {NoRing} : AddSubring(r, subring)
    \/ \E key \in AddCipherKeyArgs : SetMasterCipherKey(r, key)
    \/ GetCipher(r, AddId, FALSE)
    \/ GetKeyExchange(r, AddId, FALSE)
    \/ \E op \in AuthenticatorOps : GetAuthenticator(r, op, AddId, FALSE)
    \/ GetMAC(r, AddId, FALSE)

NextAdd == AddCalls("root")
SpecAdd == InitAdd /\ [][NextAdd]_vars

\* The valid keys callers pass in the calls on derived objects.
DerivedKeyArgs(type) == {k \in AsymmetricKeys : k.type = type /\ k.ver = 1}

\* The key-exchange, authenticator and MAC key calls on one ring.
DerivedCalls(r) ==
    \/ \E key \in DerivedKeyArgs("EC") : AddKeyExchangeKey(r, key)
    \/ \E keyId \in Ids : GetKeyExchange(r, keyId, FALSE)
    \/ \E keyId \in Ids : DropKeyExchangeKey(r, keyId, FALSE)
    \/ DropAllKeyExchangeKeys(r, FALSE)
    \/ \E key \in DerivedKeyArgs("EC") : AddAuthenticatorKey(r, key)
    \/ \E op \in AuthenticatorOps, keyId \in Ids : GetAuthenticator(r, op, keyId, FALSE)
    \/ \E keyId \in Ids : DropAuthenticatorKey(r, keyId, FALSE)
    \/ DropAllAuthenticatorKeys(r, FALSE)
    \/ \E key \in DerivedKeyArgs("HMAC") : AddMACKey(r, key)
    \/ \E keyId \in Ids : GetMAC(r, keyId, FALSE)
    \/ \E keyId \in Ids : DropMACKey(r, keyId, FALSE)
    \/ DropAllMACKeys(r, FALSE)

NextDerived == DerivedCalls("root")
SpecDerived == InitRandom /\ [][NextDerived]_vars

\* The valid cipher keys callers pass in the calls on a tree of rings.
TreeKeyArgs == {k \in SymmetricKeys : k.length = KeyLength /\ k.ver = 1}

\* The cipher-key calls on the root of a tree, recursive or not.
RootCalls(r) ==
    \/ \E key \in TreeKeyArgs : SetMasterCipherKey(r, key)
    \/ \E key \in TreeKeyArgs : AddCipherActiveKey(r, key)
    \/ \E keyId \in Ids, recursive \in BOOLEAN : GetCipher(r, keyId, recursive)
    \/ \E keyId \in Ids, recursive \in BOOLEAN : RetireActiveCipherKey(r, keyId, recursive)
    \/ \E keyId \in Ids, recursive \in BOOLEAN : DropActiveCipherKey(r, keyId, recursive)
    \/ \E keyId \in Ids, recursive \in BOOLEAN : DropRetiredCipherKey(r, keyId, recursive)
    \/ \E recursive \in BOOLEAN : DropActiveCipherKeys(r, recursive)
    \/ \E recursive \in BOOLEAN : DropRetiredCipherKeys(r, recursive)
    \/ \E recursive \in BOOLEAN : DropAllCipherKeys(r, recursive)
    \/ Clear(r)

\* The calls that fill a sub-ring.
SubringCalls(r) ==
    \/ \E key \in TreeKeyArgs : SetMasterCipherKey(r, key)
    \/ \E key \in TreeKeyArgs : AddCipherActiveKey(r, key)
    \/ \E keyId \in Ids : GetCipher(r, keyId, FALSE)
    \/ \E keyId \in Ids : RetireActiveCipherKey(r, keyId, FALSE)

NextTree ==
    \/ RootCalls("root")
    \/ \E r \in Rings \ {"root"} : SubringCalls(r)
SpecTree == InitTree /\ [][NextTree]_vars

\* The object of ID AddId that callers place in ring r: a valid one, another
\* object in every sub-ring, and in the root the object placed in "A".
PlacedVer(r) == IF r = "root" THEN 1 ELSE RingId(r) - 1
PlacedCipherKey(r) == [id |-> AddId, ver |-> PlacedVer(r), length |-> KeyLength]
PlacedKey(r, type) == [id |-> AddId, ver |-> PlacedVer(r), type |-> type]
PlacedParams(r) == [id |-> AddId, ver |-> PlacedVer(r), type |-> "EC"]

\* The calls that place an object of every category in a ring of the tree.
PlaceCalls(r) ==
    \/ AddKeyExchangeParams(r, PlacedParams(r))
    \/ AddKeyExchangeKey(r, PlacedKey(r, "EC"))
    \/ AddAuthenticatorParams(r, PlacedParams(r))
    \/ AddAuthenticatorKey(r, PlacedKey(r, "EC"))
    \/ AddCipherActiveKey(r, PlacedCipherKey(r))
    \/ AddMACKey(r, PlacedKey(r, "HMAC"))

\* The lookups of derived objects on the root, recursive or not, and Clear.
LookupCalls(r) ==
    \/ \E recursive \in BOOLEAN : GetCipher(r, AddId, recursive)
    \/ \E recursive \in BOOLEAN : GetKeyExchange(r, AddId, recursive)
    \/ \E op \in AuthenticatorOps, recursive \in BOOLEAN :
          GetAuthenticator(r, op, AddId, recursive)
    \/ \E recursive \in BOOLEAN : GetMAC(r, AddId, recursive)
    \/ Clear(r)

InitLookup == \E subrings \in Trees : Built(Null, subrings, MaxOps - MaxLookupOps)
NextLookup ==
    \/ \E r \in Rings : PlaceCalls(r)
    \/ LookupCalls("root")
SpecLookup == InitLookup /\ [][NextLookup]_vars

\* The lists of an image, and the image with the first entry of one list of
\* the ring of ID id written twice: what a file holds in which two objects of
\* one map, or two sub-rings, have the same ID.
ImageLists ==
    {"keyExchangeParams", "keyExchangeKeys", "authenticatorParams", "authenticatorKeys",
     "activeCipherKeys", "retiredCipherKeys", "macKeys", "subrings"}
RECURSIVE Repeated(_, _, _)
Repeated(image, id, list) ==
    [image EXCEPT
        ![list] = IF image.id = id /\ @ # <<>> THEN <<@[1]>> \o @ ELSE @,
        !.subrings = [i \in DOMAIN @ |-> Repeated(@[i], id, list)]]
RepeatedImages(r) ==
    {Repeated(Image(r), RingId(x), list) : x \in Rings, list \in ImageLists} \ {Image(r)}

\* What a Load can find at the path of ring r once a Save has written it: the
\* file as saved, or one with a repeated entry put in its place.
FilesAt(r) ==
    IF last.op = "Save" /\ last.ret = "ok"
    THEN {last.res} \cup {[last.res EXCEPT !.plaintext = WriteRing(image)] :
                             image \in RepeatedImages(r)}
    ELSE {}
\* An unwrapped file is loaded without a cipher, a wrapped one with one.
LoadCiphers(file) == IF file.cipher = NoCipher THEN {NoCipher} ELSE WrapCiphers

\* The root and a ring below it are filled, a key retired, a sub-ring added
\* (the root to itself, or B once more), the root saved and the file loaded.
NextStore ==
    \/ \E r \in {"root", "B"} : PlaceCalls(r)
    \/ RetireActiveCipherKey("root", AddId, TRUE)
    \/ \E subring \in {"root", "B"} : AddSubring("root", subring)
    \/ \E cipher \in {NoCipher, "C"} : Save("root", cipher, "ad")
    \/ \E file \in FilesAt("root") :
          \E cipher \in LoadCiphers(file), associatedData \in AssociatedData :
             Load("root", file, cipher, associatedData)

InitStore == \E subrings \in Trees : Built(Null, subrings, MaxOps - MaxStoreOps)
SpecStore == InitStore /\ [][NextStore]_vars

\* The root is filled and saved, the Save taken step by step.
NextSave ==
    \/ PlaceCalls("root")
    \/ \E cipher \in {NoCipher, "C"} : SaveOpen("root", cipher, "ad")
    \/ SaveWrite
    \/ \E length \in ShortWrites : SaveWriteFails(length)

InitSave == Built(Null, NoSubrings, MaxOps - MaxSaveOps)
SpecSave == InitSave /\ [][NextSave]_vars

\* The plaintexts of the envelope calls: empty, short, longer than a block,
\* and one byte too long.
EnvelopeLengths == {Num(0, 0), Num(0, 5), Num(0, 20), Plus(MAX_PLAINTEXT_LENGTH, 1)}
Plaintexts(lengths) == {[length |-> n, data |-> "p"] : n \in lengths}
CallData == {NoData, "ad"}
IVs == {1, 2}
\* The envelopes handed to Decrypt: the one the last Encrypt returned, as it
\* is, with another iv, and with another mac length in its header.
Envelopes ==
    IF last.op = "Encrypt" /\ last.ret = "ok"
    THEN {last.res, [last.res EXCEPT !.iv = 3 - @],
          [last.res EXCEPT !.macLength = @ + 1]}
    ELSE {}
\* Decrypt is given associated data in GCM mode only.
DecryptData(cipher) == IF IsAEAD(cipher.mode) THEN CallData ELSE {NoData}

NextEnvelope ==
    \/ \E cipher \in Ciphers, plaintext \in Plaintexts(EnvelopeLengths),
          associatedData \in CallData, iv \in IVs :
          EncryptCall(cipher, plaintext, associatedData, iv)
    \/ \E cipher \in Ciphers, envelope \in Envelopes :
          \E associatedData \in DecryptData(cipher) :
             DecryptCall(cipher, envelope, associatedData)

InitEnvelope == Built(Null, NoSubrings, MaxOps - MaxEnvelopeOps)
SpecEnvelope == InitEnvelope /\ [][NextEnvelope]_vars

\* The plaintext lengths around 0, around MAX_PLAINTEXT_LENGTH and up to
\* UI32_MAX.
BoundaryLengths ==
    {Num(0, n) : n \in 0 .. LengthSpan} \cup
    {Plus(Minus(MAX_PLAINTEXT_LENGTH, LengthSpan), n) : n \in 0 .. 2 * LengthSpan} \cup
    {Minus(UI32_MAX, n) : n \in 0 .. LengthSpan}

NextLength ==
    \E cipher \in Ciphers, plaintext \in Plaintexts(BoundaryLengths) :
       EncryptAndFrameCall(cipher, plaintext, NoData, 1)

InitLength == Built(Null, NoSubrings, MaxOps - MaxLengthOps)
SpecLength == InitLength /\ [][NextLength]_vars

\* The buffers handed to the digests, and the signatures handed to a verify.
Buffers == {<<>>, <<1>>, <<2>>, <<1, 2>>}
Signatures(o) == {Signed(o, <<1>>), Signed(o, <<1, 2>>)}

\* A MessageDigest is driven by hand and through its one-shots, and an
\* Authenticator of either kind and a MAC through theirs.
NextDigest ==
    \/ InitCall("MessageDigest")
    \/ \E buffer \in Buffers : UpdateCall("MessageDigest", buffer)
    \/ FinalCall("MessageDigest")
    \/ \E buffer \in Buffers : HashBuffer(buffer)
    \/ \E p \in Paths : HashFile(p)
    \/ \E o \in {"Signer", "MAC"}, buffer \in Buffers : SignBuffer(o, buffer)
    \/ \E p \in Paths : SignFile(p)
    \/ \E o \in {"Verifier", "MAC"}, buffer \in Buffers :
          \E signature \in Signatures(o) : VerifyBufferSignature(o, buffer, signature)
    \/ \E p \in Paths, signature \in Signatures("Verifier") :
          VerifyFileSignature(p, signature)

InitDigest == Built(Null, NoSubrings, MaxOps - MaxDigestOps)
SpecDigest == InitDigest /\ [][NextDigest]_vars

\* An Ed25519Signer is driven through Init, Update and Final.
NextSigner ==
    \/ InitCall("Ed25519Signer")
    \/ \E buffer \in Buffers : UpdateCall("Ed25519Signer", buffer)
    \/ FinalCall("Ed25519Signer")

InitSigner == Built(Null, NoSubrings, MaxOps - MaxSignerOps)
SpecSigner == InitSigner /\ [][NextSigner]_vars

\* The arguments of the key derivations: lengths from 0 to one past the
\* buffer, a secret or none, a salt or none, counts 0 to 2 and 2^32.
KeyLengths == 0 .. MaxKeyLength + 1
Secrets == {<<>>, <<Byte(1)>>, <<Byte(1), Byte(2)>>}
Salts == {<<>>, <<Byte(9)>>}
Counts == {Num(0, 0), Num(0, 1), Num(0, 2), Num(Limb, 0)}
\* The encodings handed to the deserializing constructor: the last key made,
\* serialized (one that lies within its buffer: Serialize of a longer one
\* reads past the buffer), and every length field from 0 to one past the
\* buffer with that many bytes after it.
Encodings ==
    {<<n>> \o [i \in 1 .. n |-> Byte(i)] : n \in KeyLengths} \cup
    (IF /\ last.op \in {"FromSecretAndSalt", "FromRandom"} /\ last.ret = "ok"
        /\ last.res.writeOffset <= MaxKeyLength
     THEN {SerializeKey(last.res)} ELSE {})

NextKey ==
    \/ \E keyLength \in KeyLengths, secret \in Secrets, salt \in Salts, md \in MDs,
          count \in Counts :
          FromSecretAndSaltCall(keyLength, secret, salt, md, count)
    \/ \E keyLength \in KeyLengths, random \in Secrets \ {<<>>} :
          FromRandomCall(keyLength, random, <<>>, "SHA2_256", Num(0, 1))
    \/ \E encoded \in Encodings : DeserializeCall(encoded)

InitKey == Built(Null, NoSubrings, MaxOps - MaxKeyOps)
SpecKey == InitKey /\ [][NextKey]_vars

\* The keys of the factories: two pairs of each type, a type the constructor
\* turns away, private and public halves; names and descriptions.
EVP_PKEYs == [type : {"DSA", "EC", "ED25519"}, pair : 1 .. 2, private : BOOLEAN]
Names == {<<>>, <<"n">>}
Descriptions == {<<>>, <<"d", "e">>}

\* The encodings a reader can meet: the text of a private or a public key, of
\* a type the constructor turns away, or no key's text at all, behind either
\* isPrivate and a recorded type that agrees with the text or not.
KeyTexts ==
    {PEM_write_bio_PrivateKey([type |-> "DSA", pair |-> 1, private |-> TRUE]),
     PEM_write_bio_PUBKEY([type |-> "DSA", pair |-> 1, private |-> FALSE]),
     PEM_write_bio_PUBKEY([type |-> "ED25519", pair |-> 1, private |-> FALSE]),
     <<"not a key">>}
KeyEncodings ==
    {Encoding([id |-> 1, name |-> <<"n">>, description |-> <<>>], isPrivate, type,
              keyBuffer) :
        isPrivate \in BOOLEAN, type \in {"DSA", "EC", "ED25519"}, keyBuffer \in KeyTexts}

NextAsymmetric ==
    \/ \E key \in EVP_PKEYs \cup {Null}, id \in Ids, name \in Names,
          description \in Descriptions :
          NewKeyCall(key, id, name, description)
    \/ \E id \in Ids, name \in Names, description \in Descriptions :
          GetPublicKeyCall(id, name, description)
    \/ SerializeCall
    \/ ReadCall
    \/ \E encoded \in KeyEncodings : ExtractCall(encoded)

InitAsymmetric == Built(Null, NoSubrings, MaxOps - MaxAsymmetricOps)
SpecAsymmetric == InitAsymmetric /\ [][NextAsymmetric]_vars

\* The command lines of the tools and what goes wrong in a run.
Range(steps) == {steps[i] : i \in 1 .. Len(steps)}
NextTool ==
    \/ \E help \in BOOLEAN, password \in {"", "password"}, file \in {"", "ring"},
          failure \in Range(GenkeyringSteps) \cup {NoFailure, Mismatch} :
          GenkeyringCall(help, password, file, failure)
    \/ \E help \in BOOLEAN, privateKey \in {"", "key.pem"}, file \in {"", "file"},
          failure \in Range(SignfileSteps) \cup {NoFailure} :
          SignfileCall(help, privateKey, file, failure)

InitTool == Built(Null, NoSubrings, MaxOps - MaxToolOps)
SpecTool == InitTool /\ [][NextTool]_vars

\* Every ring of a tree is filled, keys are retired where they are, the root
\* is made its own sub-ring or B added once more, and on the root every
\* Drop* of one object, DropSubring and RetireActiveCipherKey is called,
\* recursive.
NextDrop ==
    \/ \E r \in Rings : PlaceCalls(r)
    \/ \E r \in Rings : RetireActiveCipherKey(r, AddId, FALSE)
    \/ \E subring \in {"root", "B"} : AddSubring("root", subring)
    \/ DropKeyExchangeParams("root", AddId, TRUE)
    \/ DropKeyExchangeKey("root", AddId, TRUE)
    \/ DropAuthenticatorParams("root", AddId, TRUE)
    \/ DropAuthenticatorKey("root", AddId, TRUE)
    \/ DropActiveCipherKey("root", AddId, TRUE)
    \/ DropRetiredCipherKey("root", AddId, TRUE)
    \/ DropMACKey("root", AddId, TRUE)
    \/ \E x \in Rings : DropSubring("root", RingId(x), TRUE)
    \/ RetireActiveCipherKey("root", AddId, TRUE)

InitDrop == \E subrings \in Trees : Built(Null, subrings, MaxOps - MaxDropOps)
SpecDrop == InitDrop /\ [][NextDrop]_vars

\* Every call that takes recursive = false or no such flag, on one ring.
LocalCalls(r) ==
    \/ PlaceCalls(r)
    \/ \E subring \in {"A", "B"} : AddSubring(r, subring)
    \/ SetMasterCipherKey(r, PlacedCipherKey(r))
    \/ GetCipher(r, AddId, FALSE)
    \/ GetKeyExchange(r, AddId, FALSE)
    \/ \E op \in AuthenticatorOps : GetAuthenticator(r, op, AddId, FALSE)
    \/ GetMAC(r, AddId, FALSE)
    \/ RetireActiveCipherKey(r, AddId, FALSE)
    \/ DropKeyExchangeParams(r, AddId, FALSE)
    \/ DropKeyExchangeKey(r, AddId, FALSE)
    \/ DropAuthenticatorParams(r, AddId, FALSE)
    \/ DropAuthenticatorKey(r, AddId, FALSE)
    \/ DropActiveCipherKey(r, AddId, FALSE)
    \/ DropRetiredCipherKey(r, AddId, FALSE)
    \/ DropMACKey(r, AddId, FALSE)
    \/ \E x \in Rings : DropSubring(r, RingId(x), FALSE)
    \/ DropAllKeyExchangeParams(r, FALSE)
    \/ DropAllKeyExchangeKeys(r, FALSE)
    \/ DropAllAuthenticatorParams(r, FALSE)
    \/ DropAllAuthenticatorKeys(r, FALSE)
    \/ DropActiveCipherKeys(r, FALSE)
    \/ DropRetiredCipherKeys(r, FALSE)
    \/ DropAllCipherKeys(r, FALSE)
    \/ DropAllMACKeys(r, FALSE)
    \/ DropAllSubrings(r)

\* The calls are made on the root and on A, which is a sub-ring of the root
\* and in one tree the parent of B; B is filled as well.
NextLocal ==
    \/ \E r \in {"root", "A"} : LocalCalls(r)
    \/ PlaceCalls("B")
InitLocal == \E subrings \in Trees : Built(Null, subrings, MaxOps - MaxLocalOps)
SpecLocal == InitLocal /\ [][NextLocal]_vars

\* The rings of a tree are filled, a key retired, a sub-ring added (the root
\* to itself, or B once more), and the buffer of a Save of the root or of A is
\* allocated and written.
NextSize ==
    \/ \E r \in Rings : PlaceCalls(r)
    \/ RetireActiveCipherKey("root", AddId, FALSE)
    \/ \E subring \in {"root", "B"} : AddSubring("root", subring)
    \/ \E r \in {"root", "A"} : SaveBuffer(r)

InitSize == \E subrings \in Trees : Built(Null, subrings, MaxOps - MaxSizeOps)
SpecSize == InitSize /\ [][NextSize]_vars

AllPass(m, verify(_)) == \A k \in DOMAIN m : verify(m[k])

\* C2: in every reachable state every object a ring contains, the master
\* cipher key included, passes the Verify* check of the cipher suite for its
\* role, whichever way it came in: the constructor with a master key of the
\* caller, Add* or SetMasterCipherKey.
C2_ContainedObjectsVerify ==
    \A r \in Rings :
        /\ VerifyCipherKey(masterCipherKey[r])
        /\ AllPass(activeCipherKeyMap[r], VerifyCipherKey)
        /\ AllPass(retiredCipherKeyMap[r], VerifyCipherKey)
        /\ AllPass(keyExchangeParamsMap[r], VerifyKeyExchangeParams)
        /\ AllPass(keyExchangeKeyMap[r], VerifyKeyExchangeKey)
        /\ AllPass(authenticatorParamsMap[r], VerifyAuthenticatorParams)
        /\ AllPass(authenticatorKeyMap[r], VerifyAuthenticatorKey)
        /\ AllPass(macKeyMap[r], VerifyMACKey)

\* C3: in every reachable state of every ring, whatever the interleaving of
\* GetCipher, AddCipherActiveKey, RetireActiveCipherKey, Drop*CipherKey(s),
\* SetMasterCipherKey and Clear, an ID with an entry in the cipher cache is
\* the ID of a symmetric key the ring finds locally (master, active, retired).
C3_CachedCipherHasKey ==
    \A r \in Rings : \A keyId \in DOMAIN cipherMap[r] : LocalCipherKey(r, keyId) # Null

\* C3 witness: a ring that has changed its master key or retired or dropped
\* a key and still holds a cached Cipher.
C3_Witness ==
    /\ last.op \in {"SetMasterCipherKey", "RetireActiveCipherKey",
                    "DropActiveCipherKey", "DropRetiredCipherKey"}
    /\ last.ret \in {"ok", "true"}
    /\ cipherMap[last.ring] # EmptyMap

\* Ring r holds a key of ID keyId in both its active and its retired map.
ActiveAndRetired(r, keyId) ==
    Has(activeCipherKeyMap[r], keyId) /\ Has(retiredCipherKeyMap[r], keyId)

\* C4 as claimed: retirement is one-way, once RetireActiveCipherKey (id) went
\* through nothing puts id back into the active set, so no ID is ever in
\* both the active and the retired set of a ring.
C4_NeverActiveAndRetired ==
    \A r \in Rings : \A keyId \in Ids : ~ActiveAndRetired(r, keyId)

\* C4 as it holds: no operation moves a key from the retired set back to
\* the active set. An ID enters the active set of a ring only by an
\* AddCipherActiveKey of a key with that ID which returned true, and it
\* comes to be in both sets only by such a call made while that ID is
\* retired; a RetireActiveCipherKey that went through leaves the ID retired
\* and not active.
C4_RetirementOneWay ==
    [][\A r \in Rings : \A keyId \in Ids :
          /\ Has(activeCipherKeyMap'[r], keyId) /\ ~Has(activeCipherKeyMap[r], keyId)
                => /\ last'.op = "AddCipherActiveKey" /\ last'.ret = "true"
                   /\ last'.ring = r /\ last'.id = keyId
                   /\ activeCipherKeyMap'[r][keyId] = last'.obj
          /\ ActiveAndRetired(r, keyId)' /\ ~ActiveAndRetired(r, keyId)
                => /\ last'.op = "AddCipherActiveKey"
                   /\ Has(retiredCipherKeyMap[r], keyId)
          /\ last'.op = "RetireActiveCipherKey" /\ last'.ret = "true"
             /\ last'.ring = r /\ last'.id = keyId /\ ~last'.rec
                => /\ Has(retiredCipherKeyMap'[r], keyId)
                   /\ ~Has(activeCipherKeyMap'[r], keyId)]_vars

\* C4 witness: a key was added under an ID the ring had retired, and the ID
\* is in both sets.
C4_Witness ==
    /\ last.op = "AddCipherActiveKey" /\ last.ret = "true"
    /\ ActiveAndRetired(last.ring, last.id)

\* The step is a call of RetireActiveCipherKey (keyId, false) on ring r made
\* while keyId is in the active set of r.
RetiresActive(r, keyId) ==
    /\ nops' = nops + 1
    /\ last'.op = "RetireActiveCipherKey" /\ last'.ring = r /\ last'.id = keyId
    /\ ~last'.rec
    /\ Has(activeCipherKeyMap[r], keyId)

\* C5 as claimed: for every ring state and every ID in the active set,
\* RetireActiveCipherKey (id, false) returns true, and afterwards id is in the
\* retired set, is not in the active set, and GetCipherKey (id, false)
\* returns the key that was retired.
C5_RetireAlwaysMoves ==
    [][\A r \in Rings : \A keyId \in Ids :
          RetiresActive(r, keyId)
             => /\ last'.ret = "true"
                /\ Has(retiredCipherKeyMap'[r], keyId)
                /\ ~Has(activeCipherKeyMap'[r], keyId)
                /\ GetCipherKey(r, keyId, FALSE)' = activeCipherKeyMap[r][keyId]]_vars

\* C5 as it holds: for every ID in the active set and not in the retired set,
\* RetireActiveCipherKey (id, false) returns true, afterwards id is in the
\* retired set with the key that was active and is not in the active set,
\* and GetCipherKey (id, false) returns that key, or the master key when the
\* master key has the same ID. When id is in the retired set already, the
\* call fails with an error and changes no map.
C5_RetireMovesUnlessRetired ==
    [][\A r \in Rings : \A keyId \in Ids :
          RetiresActive(r, keyId)
             => IF Has(retiredCipherKeyMap[r], keyId)
                THEN /\ last'.ret = "error"
                     /\ UNCHANGED <<cipherVars>>
                ELSE /\ last'.ret = "true"
                     /\ Has(retiredCipherKeyMap'[r], keyId)
                     /\ retiredCipherKeyMap'[r][keyId] = activeCipherKeyMap[r][keyId]
                     /\ ~Has(activeCipherKeyMap'[r], keyId)
                     /\ GetCipherKey(r, keyId, FALSE)' =
                           IF masterCipherKey[r].id = keyId THEN masterCipherKey[r]
                           ELSE activeCipherKeyMap[r][keyId]]_vars

\* C5 witness: an active key was retired and GetCipherKey finds it in the
\* retired set.
C5_Witness ==
    /\ last.op = "RetireActiveCipherKey" /\ last.ret = "true" /\ ~last.rec
    /\ Has(retiredCipherKeyMap[last.ring], last.id)
    /\ ~Has(activeCipherKeyMap[last.ring], last.id)
    /\ GetCipherKey(last.ring, last.id, FALSE) = retiredCipherKeyMap[last.ring][last.id]

\* The Add* operations on maps of keys and parameters, the map each one
\* inserts into and the check each one makes.
AddOps ==
    {"AddKeyExchangeParams", "AddKeyExchangeKey", "AddAuthenticatorParams",
     "AddAuthenticatorKey", "AddCipherActiveKey", "AddMACKey"}
AddMap(op) ==
    CASE op = "AddKeyExchangeParams" -> keyExchangeParamsMap
      [] op = "AddKeyExchangeKey" -> keyExchangeKeyMap
      [] op = "AddAuthenticatorParams" -> authenticatorParamsMap
      [] op = "AddAuthenticatorKey" -> authenticatorKeyMap
      [] op = "AddCipherActiveKey" -> activeCipherKeyMap
      [] op = "AddMACKey" -> macKeyMap
AddVerifies(op, obj) ==
    CASE op = "AddKeyExchangeParams" -> VerifyKeyExchangeParams(obj)
      [] op = "AddKeyExchangeKey" -> VerifyKeyExchangeKey(obj)
      [] op = "AddAuthenticatorParams" -> VerifyAuthenticatorParams(obj)
      [] op = "AddAuthenticatorKey" -> VerifyAuthenticatorKey(obj)
      [] op \in {"AddCipherActiveKey", "SetMasterCipherKey"} -> VerifyCipherKey(obj)
      [] op = "AddMACKey" -> VerifyMACKey(obj)
\* The argument of the call op is an object the ring accepts.
Accepted(op, obj) ==
    obj # Null /\ (IF op = "AddSubring" THEN TRUE ELSE AddVerifies(op, obj))

\* C6: every Add* operation, AddSubring included, called with a valid
\* non-null object returns true and inserts the object when the map holds no
\* entry under its ID, and returns false leaving the map and the object
\* stored under that ID unchanged when it does; adding the same object twice
\* returns true and then false.
C6_AddInsertsOnce ==
    [][\A r \in Rings :
          /\ \A op \in AddOps :
                (nops' = nops + 1 /\ last'.op = op /\ last'.ring = r
                    /\ Accepted(op, last'.obj))
                 => LET obj == last'.obj
                        before == AddMap(op)[r]
                        after == AddMap(op)'[r]
                    IN  IF Has(before, obj.id)
                        THEN last'.ret = "false" /\ after = before
                        ELSE /\ last'.ret = "true"
                             /\ DOMAIN after = DOMAIN before \cup {obj.id}
                             /\ after[obj.id] = obj
                             /\ \A k \in DOMAIN before : after[k] = before[k]
          /\ (nops' = nops + 1 /\ last'.op = "AddSubring" /\ last'.ring = r
                  /\ Accepted("AddSubring", last'.obj))
               => LET subring == last'.obj.ring
                  IN  IF \E i \in DOMAIN subringsMap[r] : subringsMap[r][i] = subring
                      THEN last'.ret = "false" /\ subringsMap'[r] = subringsMap[r]
                      ELSE /\ last'.ret = "true"
                           /\ subringsMap'[r] = Append(subringsMap[r], subring)]_vars

\* C6 witness: an Add* of an object under an ID the map holds with another
\* object has returned false, and the map holds the first object.
C6_Witness ==
    /\ last.op \in AddOps /\ last.ret = "false"
    /\ AddMap(last.op)[last.ring][last.id] # last.obj

\* C7: every Add* operation and SetMasterCipherKey, called with a null
\* pointer or with an object that fails the Verify* check of its role, fails
\* with an invalid-argument error and leaves every map, the master key and
\* every cache of the ring unchanged.
C7_RejectedLeavesRing ==
    [][\A op \in AddOps \cup {"AddSubring", "SetMasterCipherKey"} :
          (nops' = nops + 1 /\ last'.op = op /\ ~Accepted(op, last'.obj))
             => /\ last'.ret = "EINVAL"
                /\ \A x \in Rings : RingState(x)' = RingState(x)]_vars

\* C7 witness: a ring with keys and cached derived objects has rejected an
\* object that fails its Verify* check.
C7_Witness ==
    /\ last.op \in AddOps \cup {"SetMasterCipherKey"}
    /\ last.ret = "EINVAL" /\ last.obj # Null
    /\ \E x \in Rings :
          \/ cipherMap[x] # EmptyMap
          \/ keyExchangeMap[x] # EmptyMap
          \/ authenticatorMap[x] # EmptyMap
          \/ macMap[x] # EmptyMap

\* What the getter matching the Add* operation op returns for (id, false).
AddGetter(op, r, id) ==
    CASE op = "AddKeyExchangeParams" -> GetKeyExchangeParams(r, id, FALSE)
      [] op = "AddKeyExchangeKey" -> GetKeyExchangeKey(r, id, FALSE)
      [] op = "AddAuthenticatorParams" -> GetAuthenticatorParams(r, id, FALSE)
      [] op = "AddAuthenticatorKey" -> GetAuthenticatorKey(r, id, FALSE)
      [] op = "AddCipherActiveKey" -> GetCipherKey(r, id, FALSE)
      [] op = "AddMACKey" -> GetMACKey(r, id, FALSE)

\* The step is a call of the Add* operation op on ring r ending with ret.
Adds(op, r, ret) ==
    nops' = nops + 1 /\ last'.op = op /\ last'.ring = r /\ last'.ret = ret

Drops(op, r, keyId) ==
    /\ nops' = nops + 1
    /\ last'.op = op /\ last'.ring = r /\ last'.id = keyId /\ ~last'.rec
    /\ last'.ret = "true"

\* C9 as claimed: in every reachable ring state, after DropActiveCipherKey
\* (id, false) returned true, GetCipher (id, false) on the same ring returns
\* not-found.
C9_DroppedCipherNotFound ==
    [][\A r \in Rings : \A keyId \in Ids :
          Drops("DropActiveCipherKey", r, keyId) => (r \notin ServesCipher(keyId))']_vars

\* C9 as it holds: after DropActiveCipherKey (id, false) returned true the
\* cipher cache of the ring has no entry for id, and GetCipher (id, false)
\* returns not-found unless the master key or a retired key of the ring has
\* that ID; then it returns a Cipher of that key.
C9_DroppedCipherNotFoundUnlessHeld ==
    [][\A r \in Rings : \A keyId \in Ids :
          Drops("DropActiveCipherKey", r, keyId)
             => /\ ~Has(cipherMap'[r], keyId)
                /\ ~Has(activeCipherKeyMap'[r], keyId)
                /\ (r \in ServesCipher(keyId))'
                      <=> \/ masterCipherKey[r].id = keyId
                          \/ Has(retiredCipherKeyMap[r], keyId)
                /\ LocalCipherKey(r, keyId)' =
                      IF masterCipherKey[r].id = keyId THEN masterCipherKey[r]
                      ELSE IF Has(retiredCipherKeyMap[r], keyId)
                           THEN retiredCipherKeyMap[r][keyId]
                           ELSE Null]_vars

\* C9 witness: DropActiveCipherKey has dropped a key whose Cipher was cached,
\* and GetCipher finds nothing under its ID.
C9_Witness ==
    /\ last.op = "DropActiveCipherKey" /\ last.ret = "true" /\ ~last.rec
    /\ last.res = [purged |-> {last.id}]
    /\ last.ring \notin ServesCipher(last.id)

\* C10: after DropMACKey (id), DropAuthenticatorKey (id) or
\* DropKeyExchangeKey (id) with recursive = false returned true, the matching
\* GetMAC (id, false), GetAuthenticator (Sign or Verify, id, false) or
\* GetKeyExchange (id, false) returns not-found, also when the derived
\* objects had been built and cached before the drop.
C10_DroppedDerivedNotFound ==
    [][\A r \in Rings : \A keyId \in Ids :
          /\ Drops("DropMACKey", r, keyId)
                => /\ ~Has(macMap'[r], keyId)
                   /\ (r \notin ServesMAC(keyId))'
          /\ Drops("DropAuthenticatorKey", r, keyId)
                => \A op \in AuthenticatorOps :
                      /\ ~Has(authenticatorMap'[r], AuthenticatorMapKey(op, keyId))
                      /\ (r \notin ServesAuthenticator(op, keyId))'
          /\ Drops("DropKeyExchangeKey", r, keyId)
                => /\ ~Has(keyExchangeMap'[r], keyId)
                   /\ (r \notin ServesKeyExchange(keyId))']_vars

\* C10 witness: DropAuthenticatorKey has dropped a key whose Sign and Verify
\* authenticators were both cached, and neither is found any more.
C10_Witness ==
    /\ last.op = "DropAuthenticatorKey" /\ last.ret = "true" /\ ~last.rec
    /\ last.res = [purged |-> {AuthenticatorMapKey(op, last.id) : op \in AuthenticatorOps}]
    /\ \A op \in AuthenticatorOps : last.ring \notin ServesAuthenticator(op, last.id)

\* The rings that hold an object of ID id in the category of the Add*
\* operation op, the object ring x holds there, and what the getter of the
\* category returns.
Holders(op, id) ==
    IF op = "AddCipherActiveKey" THEN HoldsCipherKey(id)
    ELSE {x \in Rings : Has(AddMap(op)[x], id)}
Held(op, x, id) ==
    IF op = "AddCipherActiveKey" THEN LocalCipherKey(x, id) ELSE AddMap(op)[x][id]
Getter(op, r, id, recursive) ==
    CASE op = "AddKeyExchangeParams" -> GetKeyExchangeParams(r, id, recursive)
      [] op = "AddKeyExchangeKey" -> GetKeyExchangeKey(r, id, recursive)
      [] op = "AddAuthenticatorParams" -> GetAuthenticatorParams(r, id, recursive)
      [] op = "AddAuthenticatorKey" -> GetAuthenticatorKey(r, id, recursive)
      [] op = "AddCipherActiveKey" -> GetCipherKey(r, id, recursive)
      [] op = "AddMACKey" -> GetMACKey(r, id, recursive)
\* The getters of derived objects and the category of the keys of each.
DerivedGetters == {"GetCipher", "GetKeyExchange", "GetAuthenticator", "GetMAC"}
KeysOf(getter) ==
    CASE getter = "GetCipher" -> "AddCipherActiveKey"
      [] getter = "GetKeyExchange" -> "AddKeyExchangeKey"
      [] getter = "GetAuthenticator" -> "AddAuthenticatorKey"
      [] getter = "GetMAC" -> "AddMACKey"
\* The rings below the root.
Descendants == Below("root", Cardinality(Rings)) \ {"root"}
\* C11: in a tree of rings of any depth, for an object K that a descendant
\* of the root holds and no other ring does, every Get* (K.id, true) on the
\* root, of keys, of parameters and of derived objects, succeeds and returns
\* the object of that descendant (for a derived object: the one made from
\* K), and the same call with recursive = false returns not-found. The
\* getters of derived objects change no map of keys, so the rings that hold
\* K are the same before and after the call that last records.
C11_RecursiveGetFindsDescendant ==
    \A d \in Descendants : \A id \in Ids :
        /\ \A op \in AddOps :
              Holders(op, id) = {d}
                 => /\ Getter(op, "root", id, TRUE) = Held(op, d, id)
                    /\ Getter(op, "root", id, FALSE) = Null
        /\ (/\ last.op \in DerivedGetters /\ last.ring = "root" /\ last.id = id
            /\ Holders(KeysOf(last.op), id) = {d})
              => IF last.rec
                 THEN /\ last.ret = "found"
                      /\ last.res.key = Held(KeysOf(last.op), d, id)
                 ELSE last.ret = "null"

\* C11 witness: a recursive GetMAC on the root of the tree root - A - B has
\* returned a MAC of the key that B alone holds.
C11_Witness ==
    /\ subringsMap["root"] = <<"A">> /\ subringsMap["A"] = <<"B">>
    /\ last.op = "GetMAC" /\ last.rec /\ last.ret = "found"
    /\ Holders("AddMACKey", last.id) = {"B"}
    /\ last.res.key = macKeyMap["B"][last.id]

\* The places in the sub-ring list of the root whose ring, or a ring below
\* it, holds an object of ID id in the category of op, and the first of them.
HitPlaces(op, id) ==
    {i \in DOMAIN subringsMap["root"] :
        Getter(op, subringsMap["root"][i], id, TRUE) # Null}
FirstHit(op, id) ==
    LET first == CHOOSE i \in HitPlaces(op, id) : \A j \in HitPlaces(op, id) : i <= j
    IN  Getter(op, subringsMap["root"][first], id, TRUE)

Caches(x) == <<keyExchangeMap[x], authenticatorMap[x], cipherMap[x], macMap[x]>>
CacheOf(getter) ==
    CASE getter = "GetCipher" -> cipherMap
      [] getter = "GetKeyExchange" -> keyExchangeMap
      [] getter = "GetAuthenticator" -> authenticatorMap
      [] getter = "GetMAC" -> macMap
\* Cache after is cache before with at most one entry more, whose object is made.
GainsOnly(before, after, made) ==
    /\ DOMAIN before \subseteq DOMAIN after
    /\ \A k \in DOMAIN before : after[k] = before[k]
    /\ Cardinality(DOMAIN after \ DOMAIN before) <= 1
    /\ \A k \in DOMAIN after \ DOMAIN before : after[k] = made
    /\ \E k \in DOMAIN after : after[k] = made

\* C13: a recursive GetCipher, GetKeyExchange, GetAuthenticator or GetMAC on
\* the root that is resolved by a key held only in a descendant D puts the
\* derived object in the cache of D and nowhere else: the caches of the root
\* and of every other ring are as they were, and so are the other three
\* caches of D.
C13_DerivedCachedWhereKeyIs ==
    [][\A d \in Rings \ {"root"} :
          (/\ last'.op \in DerivedGetters /\ last'.ring = "root" /\ last'.rec
           /\ last'.ret = "found"
           /\ Holders(KeysOf(last'.op), last'.id) = {d})
             => /\ \A x \in Rings \ {d} : Caches(x)' = Caches(x)
                /\ \A getter \in DerivedGetters \ {last'.op} :
                      CacheOf(getter)'[d] = CacheOf(getter)[d]
                /\ \E getter \in {last'.op} :
                      GainsOnly(CacheOf(getter)[d], CacheOf(getter)'[d], last'.res)]_vars

\* C13 witness: B is below A below the root, the root and A hold no MAC key
\* and no MAC, and a recursive GetMAC on the root has returned a MAC that now
\* sits in the cache of B.
C13_Witness ==
    /\ subringsMap["root"] = <<"A">> /\ subringsMap["A"] = <<"B">>
    /\ last.op = "GetMAC" /\ last.ring = "root" /\ last.rec /\ last.ret = "found"
    /\ last.res.made = nops
    /\ Holders("AddMACKey", last.id) = {"B"}
    /\ macMap["B"][last.id] = last.res
    /\ macMap["root"] = EmptyMap /\ macMap["A"] = EmptyMap

\* C14: after any sequence of AddSubring calls, also ones that add a ring to
\* itself or an ancestor to a descendant, no ring reaches itself through its
\* sub-rings.
C14_SubringsAcyclic == \A r \in Rings : ~Cyclic(r)

\* Ring x without its master key and its cipher cache.
RestOfRing(x) == [RingState(x) EXCEPT !.masterCipherKey = Null, !.cipherMap = EmptyMap]

\* C15: a SetMasterCipherKey (newKey) that goes through makes newKey the
\* master key and takes out of the cipher cache the entry under the old master
\* key's ID and no other; every other entry of the cipher cache, the other
\* caches, the active and retired keys and every other map stay as they were.
C15_SetMasterErasesOldMasterCipher ==
    [][(last'.op = "SetMasterCipherKey" /\ last'.ret = "ok")
          => /\ masterCipherKey'[last'.ring] = last'.obj
             /\ DOMAIN cipherMap'[last'.ring] =
                    DOMAIN cipherMap[last'.ring] \ {masterCipherKey[last'.ring].id}
             /\ \A id \in DOMAIN cipherMap'[last'.ring] :
                    cipherMap'[last'.ring][id] = cipherMap[last'.ring][id]
             /\ \A x \in Rings :
                    /\ RestOfRing(x)' = RestOfRing(x)
                    /\ x # last'.ring => RingState(x)' = RingState(x)]_vars

\* C15 witness: SetMasterCipherKey went through and erased the old master
\* key's Cipher while the Cipher of another key stayed in the cache.
C15_Witness ==
    /\ last.op = "SetMasterCipherKey" /\ last.ret = "ok"
    /\ last.res.purged # {}
    /\ masterCipherKey["root"] = last.obj
    /\ cipherMap["root"] # EmptyMap
    /\ \A id \in DOMAIN cipherMap["root"] : id \notin last.res.purged

\* C16: RetireActiveCipherKey leaves the cipher cache as it is, and the
\* GetCipher (id) that follows a successful retire of id returns the Cipher
\* that was cached for id when the key was active.
C16_RetireKeepsCipher ==
    [][/\ (last'.op = "RetireActiveCipherKey" /\ last'.ret = "true")
            => cipherMap' = cipherMap
       /\ (/\ last.op = "RetireActiveCipherKey" /\ last.ret = "true"
           /\ last'.op = "GetCipher" /\ last'.ring = last.ring /\ last'.id = last.id
           /\ Has(cipherMap[last.ring], last.id))
            => /\ last'.ret = "found"
               /\ last'.res = cipherMap[last.ring][last.id]]_vars

\* C16 witness: a key that is not the master key was added, GetCipher made
\* its Cipher, the key was retired, and the GetCipher after that returned the
\* Cipher made two calls earlier.
C16_Witness ==
    /\ last.op = "GetCipher" /\ last.ret = "found"
    /\ last.res.made = nops - 2
    /\ masterCipherKey["root"].id # last.id
    /\ Has(retiredCipherKeyMap["root"], last.id)
    /\ ~Has(activeCipherKeyMap["root"], last.id)
    /\ last.res.key = retiredCipherKeyMap["root"][last.id]

\* C17: after Clear () on a ring all its key and parameter maps, its sub-ring
\* map and its four caches are empty, its master key is the one it had, and
\* every other ring, its former sub-rings included, holds what it held.
C17_ClearEmptiesThisRingOnly ==
    [][\A r \in Rings :
          (last'.op = "Clear" /\ last'.ring = r)
             => /\ RingState(r)' =
                       [masterCipherKey |-> masterCipherKey[r],
                        keyExchangeParamsMap |-> EmptyMap,
                        keyExchangeKeyMap |-> EmptyMap,
                        keyExchangeMap |-> EmptyMap,
                        authenticatorParamsMap |-> EmptyMap,
                        authenticatorKeyMap |-> EmptyMap,
                        authenticatorMap |-> EmptyMap,
                        activeCipherKeyMap |-> EmptyMap,
                        retiredCipherKeyMap |-> EmptyMap,
                        cipherMap |-> EmptyMap,
                        macKeyMap |-> EmptyMap,
                        macMap |-> EmptyMap,
                        subringsMap |-> <<>>]
                /\ \A x \in Rings \ {r} : RingState(x)' = RingState(x)]_vars

\* C17 witness: the root was cleared and A, until then a sub-ring of it, still
\* holds a MAC key, the MAC made from it, and its own sub-ring B.
C17_Witness ==
    /\ last.op = "Clear" /\ last.ring = "root"
    /\ subringsMap["root"] = <<>>
    /\ macKeyMap["A"] # EmptyMap /\ macMap["A"] # EmptyMap
    /\ subringsMap["A"] = <<"B">>

\* Ring value ring has the ID, the suite and the master key ID of ring r and,
\* map by map, the IDs r holds, and so has each of its sub-rings, in turn.
RECURSIVE SameIds(_, _)
SameIds(ring, r) ==
    /\ ring.id = RingId(r)
    /\ ring.cipherSuite = cipherSuite
    /\ ring.masterCipherKey.id = masterCipherKey[r].id
    /\ DOMAIN ring.keyExchangeParamsMap = DOMAIN keyExchangeParamsMap[r]
    /\ DOMAIN ring.keyExchangeKeyMap = DOMAIN keyExchangeKeyMap[r]
    /\ DOMAIN ring.authenticatorParamsMap = DOMAIN authenticatorParamsMap[r]
    /\ DOMAIN ring.authenticatorKeyMap = DOMAIN authenticatorKeyMap[r]
    /\ DOMAIN ring.activeCipherKeyMap = DOMAIN activeCipherKeyMap[r]
    /\ DOMAIN ring.retiredCipherKeyMap = DOMAIN retiredCipherKeyMap[r]
    /\ DOMAIN ring.macKeyMap = DOMAIN macKeyMap[r]
    /\ Len(ring.subringsMap) = Len(subringsMap[r])
    /\ \A i \in DOMAIN subringsMap[r] : SameIds(ring.subringsMap[i], subringsMap[r][i])

\* C18: for every ring the public calls can build, whatever it holds and
\* however its sub-rings nest, Serialize returns and the ring built from the
\* bytes it wrote has the same ring ID, suite and master key ID and, map by
\* map and sub-ring by sub-ring, the same IDs.
C18_RingRoundTrip ==
    (last.op = "Save" /\ last.obj.cipher = NoCipher)
       => /\ last.ret = "ok"
          /\ LET read == ReadRing(last.res.plaintext, 1)
             IN  /\ read.next # 0
                 /\ SameIds(read.ring, last.ring)

\* The file the last Load read is the one Save wrote.
LoadedAsSaved == last.obj.file.plaintext = Serialize(last.ring)
\* The file the last Load read holds an entry twice.
LoadedRepeated ==
    \E image \in RepeatedImages(last.ring) : last.obj.file.plaintext = WriteRing(image)

\* C19: a Load of the file a Save wrote under wrap cipher C, with the same
\* cipher and the same associated data, returns a ring equal to the saved
\* one in everything a ring persists; a Load with another cipher fails with
\* an authentication failure and returns no ring.
C19_SaveLoadRoundTrip ==
    (last.op = "Load" /\ last.obj.file.cipher # NoCipher /\ LoadedAsSaved)
       => /\ (/\ last.obj.cipher = last.obj.file.cipher
              /\ last.obj.associatedData = last.obj.file.associatedData)
                => (last.ret = "ok" /\ last.res = Persisted(last.ring))
          /\ last.obj.cipher # last.obj.file.cipher
                => (last.ret = "AuthFailed" /\ last.res = Null)

\* C19 witness: the root, which holds a retired cipher key and sub-rings, was
\* saved under C and loaded under C, and Load returned a ring equal to it.
C19_Witness ==
    /\ last.op = "Load" /\ last.ret = "ok"
    /\ last.obj.cipher = "C" /\ last.obj.file.cipher = "C"
    /\ LoadedAsSaved
    /\ last.res = Persisted("root")
    /\ last.res.retiredCipherKeyMap # EmptyMap
    /\ last.res.subringsMap # <<>>

\* C20: when the bytes Load decodes hold two objects of the same ID in one
\* map of the ring or of a sub-ring at any depth, or two sub-rings of the
\* same ID, Load fails as a whole and returns no ring.
C20_FailedDecodeYieldsNoRing ==
    (/\ last.op = "Load"
     /\ last.ret # "AuthFailed"
     /\ LoadedRepeated)
       => (last.ret = "error" /\ last.res = Null)

\* C20 witness: B is a sub-ring of A, the file holds the MAC key of B twice,
\* and Load has thrown.
C20_Witness ==
    /\ last.op = "Load" /\ last.ret = "error" /\ last.res = Null
    /\ subringsMap["root"] = <<"A">> /\ subringsMap["A"] = <<"B">>
    /\ macKeyMap["B"] # EmptyMap
    /\ last.obj.file.plaintext = WriteRing(Repeated(Image("root"), RingId("B"), "macKeys"))

\* C21: Save writes the ring file atomically: at every point of a Save, and
\* after a Save whose write failed or was cut short, the file at path holds
\* all of what it held before the Save or all of the new encoding, never no
\* bytes and never a part of the encoding.
C21_SaveAtomic ==
    save.buffer # Null => path \in {save.previous, Complete(save.buffer)}

\* An Encrypt the cipher takes: the plaintext is no longer than
\* MAX_PLAINTEXT_LENGTH, and there is associated data in GCM mode only.
Encryptable(obj) ==
    /\ AtMost(obj.plaintext.length, MAX_PLAINTEXT_LENGTH)
    /\ (IsAEAD(obj.cipher.mode) \/ obj.associatedData = NoData)

C24_LengthsFit ==
    last.op = "EncryptAndFrame" =>
       LET n == last.obj.plaintext.length
           cipher == last.obj.cipher
       IN  IF Less(MAX_PLAINTEXT_LENGTH, n)
           THEN last.ret = "EINVAL"
           ELSE /\ last.ret = "ok"
                /\ AtMost(GetFrameLength(cipher, n), UI32_MAX)
                /\ AtMost(GetMaxBufferLength(n), UI32_MAX)
                /\ last.res.ciphertextLength = GetEnvelopeLength(cipher, n)
                /\ last.res.envelope.ciphertextLength =
                      GetCiphertextLength(cipher.mode, n)

\* C24 witness: a CBC cipher with the longest digest has framed a plaintext
\* of exactly MAX_PLAINTEXT_LENGTH bytes.
C24_Witness ==
    /\ last.op = "EncryptAndFrame" /\ last.ret = "ok"
    /\ last.obj.cipher = [key |-> "k", mode |-> "CBC", md |-> "SHA2_512"]
    /\ last.obj.plaintext.length = MAX_PLAINTEXT_LENGTH
    /\ stats[last.obj.cipher].encryptor.maxByteCount = MAX_PLAINTEXT_LENGTH

\* The Stats a step of a cipher call acts on, and the byte count it reports.
Direction(op) == IF op = "Decrypt" THEN "decryptor" ELSE "encryptor"
ByteCount(call) ==
    IF call.op = "Decrypt" THEN call.obj.ciphertext.ciphertextLength
    ELSE call.obj.plaintext.length
Smaller(a, b) == IF Less(b, a) THEN b ELSE a
Larger(a, b) == IF Less(a, b) THEN b ELSE a

OneShots ==
    {"HashBuffer", "HashFile", "SignBuffer", "SignFile", "VerifyBufferSignature",
     "VerifyFileSignature"}
OnBuffer(op) == op \in {"HashBuffer", "SignBuffer", "VerifyBufferSignature"}
ExpectedRet(op, obj) ==
    IF OnBuffer(op) THEN (IF obj.input = <<>> THEN "EINVAL" ELSE "ok")
    ELSE IF obj.input = "missing" THEN "ENOENT"
    ELSE IF obj.input = "broken" THEN "EIO" ELSE "ok"
ExpectedRes(op, obj) ==
    LET bytes == IF OnBuffer(op) THEN obj.input ELSE FileAt(obj.input).bytes
    IN  IF op \in {"HashBuffer", "HashFile"} THEN Hash(DigestOf(obj.object), bytes)
        ELSE IF op \in {"SignBuffer", "SignFile"} THEN Signed(obj.object, bytes)
        ELSE [verified |-> obj.signature = Signed(obj.object, bytes)]

\* C26: a MessageDigest, an Authenticator and a MAC are used again and again
\* in any order: what a one-shot (HashBuffer, HashFile, SignBuffer, SignFile,
\* VerifyBufferSignature, VerifyFileSignature) returns is fixed by its
\* arguments and by the key and the digest of its object, whatever was done
\* on the object before.
C26_OneShotsIgnoreHistory ==
    last.op \in OneShots =>
       /\ last.ret = ExpectedRet(last.op, last.obj)
       /\ last.ret = "ok" => last.res = ExpectedRes(last.op, last.obj)

\* C26 witness: HashBuffer went through on a MessageDigest that a caller
\* had left in the middle of a digest of other bytes.
C26_Witness ==
    /\ last.op = "HashBuffer" /\ last.ret = "ok" /\ last.obj.input = <<1>>
    /\ last.obj.found.init /\ last.obj.found.fed = <<2>>

\* b1 || ... || bn.
RECURSIVE Flatten(_)
Flatten(chunks) ==
    IF chunks = <<>> THEN <<>> ELSE Head(chunks) \o Flatten(Tail(chunks))

\* C27: on an Ed25519Signer, Init, then Update (b1) .. Update (bn), then Final
\* returns in Final, and in no call before it, the Ed25519 signature under
\* the private key of the digest of b1 || ... || bn, so that the signature is
\* the same however the message is split into buffers.
C27_SignsDigestOfWholeMessage ==
    /\ (last.op = "Final" /\ last.obj.object = "Ed25519Signer" /\ last.obj.init)
          => /\ last.ret = "ok"
             /\ last.res = [key |-> "E",
                            digest |-> Hash("SHA2_512", Flatten(last.obj.chunks))]
    /\ last.op \in {"Init", "Update"} => last.res = Null

\* C27 witness: Final after Init, Update (1) and Update (2) returned the
\* signature of the digest of the bytes 1, 2.
C27_Witness ==
    /\ last.op = "Final" /\ last.obj.object = "Ed25519Signer" /\ last.obj.init
    /\ last.obj.chunks = << <<1>>, <<2>> >>
    /\ last.res.digest.of = <<1, 2>>

\* H applied n times to input, and the blocks B1, B2, ...: B1 is H applied
\* count times to secret || salt, Bi to B(i-1) || secret || salt.
RECURSIVE HPower(_, _, _), Block(_, _, _, _, _)
HPower(md, input, n) ==
    IF n = 0 THEN input ELSE HashBytes(md, HPower(md, input, n - 1))
Block(i, secret, salt, md, count) ==
    HPower(md, (IF i = 1 THEN <<>> ELSE Block(i - 1, secret, salt, md, count))
               \o secret \o salt, count)
RECURSIVE Blocks(_, _, _, _, _)
Blocks(n, secret, salt, md, count) ==
    IF n = 0 THEN <<>>
    ELSE Blocks(n - 1, secret, salt, md, count) \o Block(n, secret, salt, md, count)

\* C28: FromSecretAndSalt (keyLen, secret, salt, md, count) with a key length
\* from 1 to the maximum, a secret and a count above 0 returns, and returns
\* one key for the same arguments: a key of keyLen bytes, the first keyLen
\* bytes of B1 || B2 || ...
C28_DerivesKey ==
    (/\ last.op = "FromSecretAndSalt"
     /\ last.obj.keyLength \in 1 .. MaxKeyLength
     /\ last.obj.secret # <<>>
     /\ Less(Num(0, 0), last.obj.count))
       => /\ last.ret = "ok"
          /\ Cardinality(FromSecretAndSalt(last.obj.keyLength, last.obj.secret,
                                           last.obj.salt, last.obj.md,
                                           last.obj.count)) = 1
          /\ last.res.writeOffset = last.obj.keyLength
          /\ SubSeq(last.res.data, 1, last.obj.keyLength) =
                SubSeq(Blocks(last.obj.keyLength, last.obj.secret, last.obj.salt,
                              last.obj.md, last.obj.count.lo),
                       1, last.obj.keyLength)

\* C29: every SymmetricKey, made by FromSecretAndSalt or FromRandom with any
\* key length or by the deserializing constructor from any length field,
\* has a length of at most the maximum key length and zeros in every byte of
\* its buffer beyond its length.
C29_KeyWithinMaximum ==
    (last.op \in {"FromSecretAndSalt", "FromRandom", "SymmetricKey"} /\ last.ret = "ok")
       => /\ last.res.writeOffset <= MaxKeyLength
          /\ Len(last.res.data) = MaxKeyLength
          /\ \A i \in last.res.writeOffset + 1 .. MaxKeyLength : last.res.data[i] = Zero

\* C30: a key, private or the public key GetPublicKey gave, serialized into
\* a buffer of Size () bytes fills the buffer exactly (Size () is the number
\* of bytes written), and the key read back from the buffer has the same id,
\* name, description and isPrivate.
C30_SerializationRoundTrip ==
    /\ last.op = "AsymmetricKey::Serialize"
          => last.ret = "ok" /\ BytesIn(last.res.buffer) = last.res.size
    /\ last.op = "AsymmetricKey::Read"
          => /\ last.res.id = last.obj.key.id
             /\ last.res.name = last.obj.key.name
             /\ last.res.description = last.obj.key.description
             /\ last.res.isPrivate = last.obj.key.isPrivate

\* A named and described public key that GetPublicKey gave was serialized
\* and read back.
C30_Witness ==
    /\ last.op = "AsymmetricKey::Read"
    /\ last.obj.from = "AsymmetricKey::GetPublicKey"
    /\ last.obj.key.name # <<>>
    /\ last.obj.key.description # <<>>
    /\ last.res.key = [type |-> "DSA", pair |-> 2, private |-> FALSE]

\* The types of key an AsymmetricKey holds.
KeyTypes == {"DH", "DSA", "EC", "RSA", "HMAC", "CMAC"}

\* C40: every AsymmetricKey that exists, constructed, given by GetPublicKey
\* or read from an encoding, holds a key, of type DH, DSA, EC, RSA, HMAC or
\* CMAC, and one read from an encoding holds a key of the type the encoding
\* records.
C40_KeyNeverNullOrMistyped ==
    (/\ last.op \in {"AsymmetricKey::AsymmetricKey", "AsymmetricKey::GetPublicKey",
                     "AsymmetricKey::Read", "AsymmetricKey::Extract"}
     /\ last.ret = "ok")
       => /\ last.res.key # Null
          /\ last.res.key.type \in KeyTypes
          /\ last.op = "AsymmetricKey::Extract"
                => last.res.key.type = RecordedType(last.obj.buffer)

\* C31: GetPublicKey on any AsymmetricKey returns a key with isPrivate false
\* and leaves the key it was called on as it was; on a public key it returns
\* a key with the same key material; and no call on a key with isPrivate
\* false leaves it with isPrivate true.
C31_GetPublicKeyLeavesSource ==
    /\ last.op = "AsymmetricKey::GetPublicKey"
          => /\ last.ret = "ok"
             /\ last.res.isPrivate = FALSE
             /\ last.obj.after = last.obj.key
             /\ ~last.obj.key.isPrivate => last.res.key = last.obj.key.key
    /\ (last.op = "AsymmetricKey::GetPublicKey" /\ ~last.obj.key.isPrivate)
          => ~last.obj.after.isPrivate

\* The command line of the last run of a tool lacks the password or private
\* key, or the path.
UsageError == last.obj.secret = "" \/ last.obj.file = ""

\* C32: genkeyring and signfile exit with 0 only when every step succeeded,
\* with 1 on a command line without password, private key or path, and with 2
\* when a cryptographic or I/O step fails.
C32_ExitCodes ==
    last.op \in {"genkeyring", "signfile"}
       => /\ UsageError => last.res.exit = 1
          /\ (~UsageError /\ ~last.obj.help /\ last.obj.failure \notin {NoFailure, Mismatch})
                => last.res.exit = 2
          /\ last.res.exit = 0
                => ~UsageError /\ ~last.obj.help /\ last.obj.failure = NoFailure

\* The key objects of ID keyId that ring r holds: its master key, its active
\* key and its retired key of that ID.
HeldCipherKeys(r, keyId) ==
    {k \in {masterCipherKey[r]} : k.id = keyId} \cup
    (IF Has(activeCipherKeyMap[r], keyId) THEN {activeCipherKeyMap[r][keyId]} ELSE {}) \cup
    (IF Has(retiredCipherKeyMap[r], keyId) THEN {retiredCipherKeyMap[r][keyId]} ELSE {})

\* C33 as claimed: in every reachable state, a Cipher cached for an ID is
\* built from the key object GetCipherKey (id, false) returns, also when
\* several key objects of the ring share the ID.
C33_CacheHoldsCurrentKey ==
    \A r \in Rings : \A keyId \in DOMAIN cipherMap[r] :
        cipherMap[r][keyId].key = LocalCipherKey(r, keyId)

\* C33 as amended: in every reachable state, a Cipher cached for an ID is
\* built from a key object of that ID that the ring holds as master, active
\* or retired key, and so from the key GetCipherKey (id, false) returns when
\* the ring holds one key object of that ID.
C33_CacheHoldsAHeldKey ==
    \A r \in Rings : \A keyId \in DOMAIN cipherMap[r] :
        /\ cipherMap[r][keyId].key \in HeldCipherKeys(r, keyId)
        /\ Cardinality(HeldCipherKeys(r, keyId)) = 1
              => cipherMap[r][keyId].key = LocalCipherKey(r, keyId)

\* C33 witness: SetMasterCipherKey made a key the master whose ID has a cached
\* Cipher built from another key object, the active key of that ID.
C33_Witness ==
    /\ last.op = "SetMasterCipherKey"
    /\ last.ret = "ok"
    /\ Has(cipherMap[last.ring], last.id)
    /\ cipherMap[last.ring][last.id].key # masterCipherKey[last.ring]
    /\ Has(activeCipherKeyMap[last.ring], last.id)
    /\ cipherMap[last.ring][last.id].key = activeCipherKeyMap[last.ring][last.id]

\* The step is a call of RetireActiveCipherKey (keyId, recursive) on ring r.
Retires(r, keyId) ==
    /\ nops' = nops + 1
    /\ last'.op = "RetireActiveCipherKey" /\ last'.ring = r /\ last'.id = keyId
\* The step moves the key of ID keyId of ring t from active to retired and
\* changes nothing else.
MovesToRetired(t, keyId) ==
    /\ Has(activeCipherKeyMap[t], keyId)
    /\ activeCipherKeyMap' =
          [activeCipherKeyMap EXCEPT ![t] = MapErase(@, keyId)]
    /\ ~Has(retiredCipherKeyMap[t], keyId)
    /\ Has(retiredCipherKeyMap'[t], keyId)
    /\ retiredCipherKeyMap'[t][keyId] = activeCipherKeyMap[t][keyId]
    /\ \A x \in Rings \ {t} : retiredCipherKeyMap'[x] = retiredCipherKeyMap[x]
    /\ \A k \in DOMAIN retiredCipherKeyMap[t] :
          Has(retiredCipherKeyMap'[t], k) /\ retiredCipherKeyMap'[t][k] = retiredCipherKeyMap[t][k]
    /\ UNCHANGED <<kxVars, authVars, macVars, masterCipherKey, cipherMap, subringsMap>>
\* The rings a call on r searches.
Searched(r, recursive) == IF recursive THEN Below(r, Cardinality(Rings)) ELSE {r}

\* C34: every call of RetireActiveCipherKey either moves the key from active
\* to retired in one ring and returns true, or changes nothing; when the ID
\* is active and retired in the ring the call fails with an error and
\* changes nothing; when the ID is active in no ring it searches the call
\* returns false and changes nothing.
C34_RetireIsAtomic ==
    [][\A r \in Rings : \A keyId \in Ids :
          Retires(r, keyId)
             => /\ \/ last'.ret = "true" /\ \E t \in Rings : MovesToRetired(t, keyId)
                   \/ last'.ret # "true" /\ UNCHANGED ringVars
                /\ (Has(activeCipherKeyMap[r], keyId) /\ Has(retiredCipherKeyMap[r], keyId))
                      => last'.ret = "error" /\ UNCHANGED ringVars
                /\ (\A x \in Rings :
                       (\E recursive \in BOOLEAN :
                           last'.rec = recursive /\ x \in Searched(r, recursive))
                          => ~Has(activeCipherKeyMap[x], keyId))
                      => last'.ret = "false" /\ UNCHANGED ringVars]_vars

\* The IDs a master key can have: a caller's, or a random one.
MasterIds == Ids \cup {NumIds + RingId(x) : x \in Rings}
\* The step is a SetMasterCipherKey on ring r that went through while the
\* master key of r had the ID oldId.
ReplacesMaster(r, oldId) ==
    /\ nops' = nops + 1
    /\ last'.op = "SetMasterCipherKey" /\ last'.ring = r /\ last'.ret = "ok"
    /\ masterCipherKey[r].id = oldId
\* GetCipherKey (keyId, false) and GetCipher (keyId, false) on r find nothing.
NotFound(r, keyId) ==
    GetCipherKey(r, keyId, FALSE) = Null /\ Target(r, ServesCipher(keyId), FALSE) = NoRing

\* C35 as claimed: after a SetMasterCipherKey that went through, unless the
\* old master key's ID is in the active or retired set, GetCipherKey
\* (oldId, false) and GetCipher (oldId, false) find nothing.
C35_OldMasterGone ==
    [][\A r \in Rings : \A oldId \in MasterIds :
          (/\ ReplacesMaster(r, oldId)
           /\ ~Has(activeCipherKeyMap[r], oldId)
           /\ ~Has(retiredCipherKeyMap[r], oldId))
             => NotFound(r, oldId)']_vars

\* C35 as amended: the same, unless the new master key has the old one's
\* ID; then both find the new master key and no cached Cipher of the old.
C35_OldMasterGoneUnlessSameId ==
    [][\A r \in Rings : \A oldId \in MasterIds :
          (/\ ReplacesMaster(r, oldId)
           /\ ~Has(activeCipherKeyMap[r], oldId)
           /\ ~Has(retiredCipherKeyMap[r], oldId))
             => IF last'.id # oldId THEN NotFound(r, oldId)'
                ELSE /\ GetCipherKey(r, oldId, FALSE)' = last'.obj
                     /\ ~Has(cipherMap'[r], oldId)]_vars

\* C35 witness: SetMasterCipherKey replaced a master key whose Cipher was
\* cached by a key of another ID, and the old ID is found no more.
C35_Witness ==
    /\ last.op = "SetMasterCipherKey" /\ last.ret = "ok"
    /\ last.res.purged # {}
    /\ last.id \notin last.res.purged
    /\ \A keyId \in last.res.purged : NotFound(last.ring, keyId)

\* The rings under r in the order a depth-first traversal of the sub-rings
\* meets them, r first, down to depth fuel.
RECURSIVE Preorder(_, _), PreorderAll(_, _)
Preorder(r, fuel) ==
    IF fuel = 0 THEN <<r>> ELSE <<r>> \o PreorderAll(subringsMap[r], fuel - 1)
PreorderAll(rings, fuel) ==
    IF rings = <<>> THEN <<>>
    ELSE Preorder(Head(rings), fuel) \o PreorderAll(Tail(rings), fuel)
\* The first ring of the traversal from r that is one of holders, NoRing when
\* there is none.
FirstHolder(r, holders) ==
    LET order == Preorder(r, Cardinality(Rings))
        places == {i \in DOMAIN order : order[i] \in holders}
    IN  IF places = {} THEN NoRing
        ELSE order[CHOOSE i \in places : \A j \in places : i <= j]

\* The recursive calls on one object, and the rings that hold the object of
\* ID id that the call op removes or moves.
SingleOps ==
    {"DropKeyExchangeParams", "DropKeyExchangeKey", "DropAuthenticatorParams",
     "DropAuthenticatorKey", "DropActiveCipherKey", "DropRetiredCipherKey",
     "DropMACKey", "DropSubring", "RetireActiveCipherKey"}
RemovedFrom(op, id) ==
    CASE op = "DropKeyExchangeParams" -> HoldsKeyExchangeParams(id)
      [] op = "DropKeyExchangeKey" -> HoldsKeyExchangeKey(id)
      [] op = "DropAuthenticatorParams" -> HoldsAuthenticatorParams(id)
      [] op = "DropAuthenticatorKey" -> HoldsAuthenticatorKey(id)
      [] op = "DropActiveCipherKey" -> HoldsActive(id)
      [] op = "DropRetiredCipherKey" -> HoldsRetired(id)
      [] op = "DropMACKey" -> HoldsMACKey(id)
      [] op = "DropSubring" -> HoldsSubring(id)
      [] op = "RetireActiveCipherKey" -> HoldsActive(id)

\* C36: a recursive Drop* of one object, DropSubring or RetireActiveCipherKey
\* changes at most one ring, the first ring of the depth-first traversal from
\* the calling ring that holds the ID, the calling ring first; it returns
\* true exactly when that ring lost the object (or moved the key), and every
\* other ring, also one that holds an object of the same ID, stays as it was.
C36_RecursiveDropChangesOneRing ==
    [][\A op \in SingleOps : \A r \in Rings : \A id \in Ids \cup {RingId(x) : x \in Rings} :
          (/\ nops' = nops + 1
           /\ last'.op = op /\ last'.ring = r /\ last'.id = id /\ last'.rec)
             => \A first \in Rings \cup {NoRing} :
                   first = FirstHolder(r, RemovedFrom(op, id)) =>
                    /\ \A x \in Rings \ {first} : RingState(x)' = RingState(x)
                    /\ last'.ret = "true"
                          <=> IF first = NoRing THEN FALSE
                              ELSE /\ RingState(first)' # RingState(first)
                                   /\ first \notin RemovedFrom(op, id)']_vars

\* C36 witness: a recursive DropMACKey on the root, which holds no such key,
\* removed the key of the first sub-ring and left the key of the same ID in
\* the second one.
C36_Witness ==
    /\ last.op = "DropMACKey" /\ last.rec /\ last.ret = "true" /\ last.ring = "root"
    /\ Len(subringsMap["root"]) = 2
    /\ HoldsMACKey(last.id) = {subringsMap["root"][2]}


\* C37: a call with recursive = false (or without the flag: Add*,
\* SetMasterCipherKey, DropAllSubrings) on ring r changes the maps, caches and
\* master key of no other ring: the sub-rings of r stay as they were, and so
\* does every ring that has r as a sub-ring.
C37_NonRecursiveCallIsLocal ==
    [][\A r \in Rings :
          (nops' = nops + 1 /\ last'.ring = r /\ ~last'.rec)
             => \A x \in Rings \ {r} : RingState(x)' = RingState(x)]_vars

\* C37 witness: ring A, a sub-ring of the root, has dropped its MAC key in a
\* non-recursive call while its parent or its own sub-ring holds a MAC key of
\* the same ID.
C37_Witness ==
    /\ last.op = "DropMACKey" /\ ~last.rec /\ last.ret = "true" /\ last.ring = "A"
    /\ \E x \in HoldsMACKey(last.id) :
          \/ FindSubring(subringsMap[x], RingId("A")) # 0
          \/ FindSubring(subringsMap["A"], RingId(x)) # 0


\* The getters that build a derived object and cache it.
CachingGetters == {"GetCipher", "GetKeyExchange", "GetAuthenticator", "GetMAC"}

\* C38: GetCipher, GetMAC, GetAuthenticator and GetKeyExchange never end in
\* their "Unable to add" failure; when the ring's cache holds no entry of the
\* ID and the ring holds the key, the object the call built is in the cache
\* afterwards and is what the call returns.
C38_CacheInsertSucceeds ==
    [][(nops' = nops + 1 /\ last'.op \in CachingGetters)
          => \A r \in {last'.ring} : \A keyId \in {last'.id} :
                /\ last'.ret # "error"
                /\ (/\ last'.op = "GetCipher"
                    /\ ~Has(cipherMap[r], keyId) /\ LocalCipherKey(r, keyId) # Null)
                      => /\ last'.ret = "found"
                         /\ Has(cipherMap'[r], keyId) /\ cipherMap'[r][keyId] = last'.res
                /\ (/\ last'.op = "GetMAC"
                    /\ ~Has(macMap[r], keyId) /\ Has(macKeyMap[r], keyId))
                      => /\ last'.ret = "found"
                         /\ Has(macMap'[r], keyId) /\ macMap'[r][keyId] = last'.res
                /\ (/\ last'.op = "GetKeyExchange"
                    /\ ~Has(keyExchangeMap[r], keyId) /\ Has(keyExchangeKeyMap[r], keyId))
                      => /\ last'.ret = "found"
                         /\ Has(keyExchangeMap'[r], keyId)
                         /\ keyExchangeMap'[r][keyId] = last'.res
                /\ \A op \in AuthenticatorOps :
                      (/\ last'.op = "GetAuthenticator" /\ last'.obj = [op |-> op]
                       /\ ~Has(authenticatorMap[r], AuthenticatorMapKey(op, keyId))
                       /\ Has(authenticatorKeyMap[r], keyId))
                         => /\ last'.ret = "found"
                            /\ Has(authenticatorMap'[r], AuthenticatorMapKey(op, keyId))
                            /\ authenticatorMap'[r][AuthenticatorMapKey(op, keyId)] = last'.res]_vars

\* C38 witness: a GetAuthenticator built and cached the Verify authenticator
\* of a key while the cache held the Sign authenticator of the same key.
C38_Witness ==
    /\ last.op = "GetAuthenticator" /\ last.ret = "found" /\ last.obj = [op |-> "Verify"]
    /\ last.res.made = nops
    /\ authenticatorMap[last.ring][AuthenticatorMapKey("Verify", last.id)] = last.res
    /\ Has(authenticatorMap[last.ring], AuthenticatorMapKey("Sign", last.id))


\* C39: for every ring, whatever it holds and however its sub-rings nest,
\* Size (false) returns the number of bytes Serialize (serializer, false)
\* writes, so that the buffer Save allocates is filled exactly, and the
\* fields are written in the order in which the deserializing constructor
\* reads them: reading them back in that order uses all of them and gives
\* the ring.
C39_SizeIsBytesWritten ==
    last.op = "SaveBuffer"
       => /\ last.ret = "ok"
          /\ last.res.length = BytesIn(last.res.buffer)
          /\ ReadRing(Serialize(last.ring), 1)
                = [ring |-> Persisted(last.ring), next |-> Len(Serialize(last.ring)) + 1]

====
